---------------------------- MODULE Spec2Model ----------------------------
(***************************************************************************)
(* A model of the media-transport path of net_prg's SIP phone (src/sip.go):*)
(* NAT traversal (STUN with keepalive, TURN fallback), the SDP answer      *)
(* builder and the RTP send loop.                                          *)
(*                                                                         *)
(* The specifications share the module's variables:                        *)
(*   SpecNat   one call leg: main's handlers, performNATTraversal,         *)
(*             performSTUNWithKeepalive, performTURN, the keepalive        *)
(*             goroutine and a clock;                                      *)
(*   SpecSdp   generateSDPAnswer applied to inputs drawn from small sets;  *)
(*   SpecSend  the send loop of handleRTPCommunication, from its start;    *)
(*   SpecSendLong  the send loop from its start and from the state it has  *)
(*             shortly before its uint32 timestamp wraps;                  *)
(*   SpecMedia handleRTPCommunication: the send loop, the receive          *)
(*             goroutine and the deferred closes;                          *)
(*   SpecPcm   encodeG711 and decodeG711 on frames of 160 samples;         *)
(*   SpecPool  Pool (src/pool.go) with ConnectionTask's Run.                *)
(* A specification leaves the variables of the others unchanged.           *)
(***************************************************************************)
EXTENDS Integers, Sequences, FiniteSets, TLC

VARIABLES
    \* ---- one call leg: main, NAT traversal (SpecNat)
    mainPc,        \* position of the handler running performNATTraversal
    path,          \* "invite" (OnInvite handler) or "connected" (event loop)
    stunEvent,     \* what the network did to the STUN attempt
    stunConn,      \* UDP socket of performSTUNWithKeepalive
    stunClient,    \* stun.Client of performSTUNWithKeepalive
    errOuter,      \* performSTUNWithKeepalive's function-level err
    publicIP,      \* performSTUNWithKeepalive's local publicIP
    publicPort,    \* performSTUNWithKeepalive's local publicPort
    stunRet,       \* what performSTUNWithKeepalive returned
    turnEvent,     \* what the network did to the TURN attempt
    turnConn,      \* UDP socket of performTURN
    turnClient,    \* turn.Client of performTURN
    turnRet,       \* what performTURN returned
    natRet,        \* what performNATTraversal returned
    natLog,        \* errors performNATTraversal logged
    acceptedSDP,   \* the answer handed to session.AcceptWithSDP
    media,         \* the arguments handleRTPCommunication was started with
    \* ---- the keepalive goroutine and the clock (SpecNat)
    now,           \* seconds since the leg began
    kaPc,          \* "idle", "select" (blocked in the select) or "done"
    kaStart,       \* when the goroutine created its ticker
    kaNextTick,    \* when the ticker fires next
    kaTickPending, \* a tick is buffered in ticker.C
    kaAfter,       \* deadline of the time.After of the current select
    kaSent,        \* binding indications written by the goroutine
    kaOnClosed,    \* client.Do calls of the goroutine on a closed client
    \* ---- generateSDPAnswer (SpecSdp)
    sdpIn,         \* the arguments of the call
    sdpOut,        \* the text it returned
    sdpCalled,     \* whether the call has been made
    \* ---- the send loop of handleRTPCommunication (SpecSend)
    sendPc,        \* "loop" or "stopped"
    selectedCodec, \* session.SelectedCodec
    sequenceNumber,\* the loop's sequenceNumber (uint16)
    timestamp,     \* the loop's timestamp (uint32, as halves hi and lo)
    nWritten,      \* packets written to rtpConn so far
    lastPacket,    \* the header and payload length of the last packet written
    sendErr,       \* why the loop stopped
    encCreated,    \* Opus encoders created by encodeOpus so far
    encDestroyed,  \* Destroy calls on Opus encoders so far
    \* ---- handleRTPCommunication around the send loop (SpecMedia)
    mediaPc,       \* "idle", "running" or "returned" (the deferred calls ran)
    rtpConn,       \* the media socket: "none", "open" or "closed"
    rtpCloses,     \* calls of rtpConn.Close
    audioCapture,  \* the capture stream: "none", "open" or "closed"
    audioPlayback, \* the playback stream: "none", "open" or "closed"
    recvPc,        \* the receive goroutine: "idle", "loop" or "stopped"
    recvErr,       \* why the receive goroutine stopped
    nRead,         \* datagrams the receive goroutine has read
    nSinkWrites,   \* calls of audioPlayback.Write
    lastDatagram,  \* the datagram read last
    decCreated,    \* Opus decoders created by decodeOpus so far
    decDestroyed,  \* Destroy calls on Opus decoders so far
    writtenAtRecvStop, \* nWritten when the receive goroutine stopped
    \* ---- encodeG711 and decodeG711 (SpecPcm)
    pcmPc,         \* "idle", "frame", "encoded" or "decoded"
    pcmIn,         \* the frame of samples given to encodeG711
    pcmEncoded,    \* the bytes encodeG711 returned
    pcmDecoded,    \* the samples decodeG711 returned
    pcmErr,        \* the error encodeG711 or decodeG711 returned
    \* ---- Pool and its tasks (SpecPool)
    poolPc,        \* "idle", "new" (NewPool returned), "running" or "panicked"
    workerPc,      \* per worker: "none", "idle", "busy" or "exited"
    workerTask,    \* per worker: the task it runs, 0 for none
    chanClosed,    \* close(pool.tasksChan) has been executed
    wg,            \* the counter of pool.wg
    taskState,     \* per task: "new", "sending", "running", "done", "lost"
    taskOutcome,   \* per task: how its Run ended
    waitPc,        \* the caller of Wait: "none", "waiting" or "returned"
    waitedFor,     \* the tasks handed to Submit before Wait was called
    unfinishedAtWait, \* those of them not yet done when Wait was called
    taskRuns,      \* per task: how often a worker has called its Run
    taskConn,      \* per task: its connection, "none", "open" or "closed"
    \* ---- syncAllToDecisions (SpecSync)
    syncPc,        \* "idle", "start", "spawn" or "returned"
    nFollowers,    \* len(followerChatIds)
    spawned,       \* follower goroutines started so far
    swg,           \* the counter of the function's WaitGroup
    gPc,           \* per follower goroutine: "none", "running", "sending", "done"
    gSend,         \* per follower goroutine: the channel and value it sends
    ratingCh,      \* the buffer of ratingCh
    errCh,         \* the buffer of errCh
    chansClosed,   \* close(ratingCh) and close(errCh) have been executed
    nSends,        \* per follower goroutine: sends completed
    syncRet,       \* what syncAllToDecisions returned
    \* ---- the concurtcp server (SpecServer)
    srvPc,         \* main: "idle", "start", "select", "accept", "shutdown",
                   \* "waiting", "returned" or "fatal"
    ctxDone,       \* cancel() has been called
    listener,      \* "none", "open" or "closed"
    sigPc          \* the signal goroutine: "none", "waiting", "cancelled", "done"

natVars == <<mainPc, path, stunEvent, stunConn, stunClient, errOuter, publicIP,
             publicPort, stunRet, turnEvent, turnConn, turnClient, turnRet,
             natRet, natLog, acceptedSDP, media>>
kaVars == <<now, kaPc, kaStart, kaNextTick, kaTickPending, kaAfter, kaSent,
            kaOnClosed>>
sdpVars == <<sdpIn, sdpOut, sdpCalled>>
sendVars == <<sendPc, selectedCodec, sequenceNumber, timestamp, nWritten,
              lastPacket, sendErr, encCreated, encDestroyed>>
recvVars == <<mediaPc, rtpConn, rtpCloses, audioCapture, audioPlayback, recvPc,
              recvErr, nRead, nSinkWrites, lastDatagram, decCreated,
              decDestroyed, writtenAtRecvStop>>
pcmVars == <<pcmPc, pcmIn, pcmEncoded, pcmDecoded, pcmErr>>
poolVars == <<poolPc, workerPc, workerTask, chanClosed, wg, taskState,
              taskOutcome, waitPc, waitedFor, unfinishedAtWait, taskRuns,
              taskConn>>
syncVars == <<syncPc, nFollowers, spawned, swg, gPc, gSend, ratingCh, errCh,
              chansClosed, nSends, syncRet>>
srvVars == <<srvPc, ctxDone, listener, sigPc>>
\* the groups no action of the media loop touches
restVars == <<pcmVars, poolVars, syncVars, srvVars>>
\* the groups no action of SpecNat, SpecSdp or the send loop touches
moreVars == <<recvVars, restVars>>
vars == <<natVars, kaVars, sdpVars, sendVars, moreVars>>

---------------------------------------------------------------------------
(* Bounds of the model.                                                    *)

\* the clock stops at MaxTime seconds
MaxTime == 240
\* the clock advances TimeStep seconds at a time
TimeStep == 30

\* the send loop is followed for MaxPackets packets
MaxPackets == 65540
\* SpecSendLong also follows the send loop from its LateStart-th packet on,
\* for LateRun packets: the uint32 timestamp wraps in between
LateStart == 26843540
LateRun == 10
\* SpecMedia follows the send loop for MediaPackets packets and the receive
\* goroutine for MaxDatagrams datagrams
MediaPackets == 3
MaxDatagrams == 3
\* SpecPool runs a pool of NumThreads workers with MaxTasks tasks
NumThreads == 2
MaxTasks == 3
\* SpecSync calls syncAllToDecisions with up to MaxFollowers follower chats
MaxFollowers == 3

(* Program constants.                                                      *)

\* time.NewTicker(30 * time.Second)
KeepaliveInterval == 30
\* time.After(2 * time.Minute), in seconds
KeepaliveWindow == 120
\* "timestamp += 160"
TimestampStep == 160
\* "audioData := make([]int16, 160)"
FrameSamples == 160
\* "SSRC: 1234"
Ssrc == 1234
\* "sequenceNumber := uint16(0)": sequence numbers are taken modulo 2^16
SeqModulus == 65536
\* "timestamp := uint32(0)": a uint32 is kept as two 16-bit halves, hi and lo,
\* its value being hi * 2^16 + lo (2^32 is more than the checker's integers hold)
HalfWord == 65536

---------------------------------------------------------------------------
(* Errors.  A Go error is modelled by its message, the sequence of the     *)
(* segments fmt.Errorf("...: %v", err) chains; the nil error is <<>>.      *)

NilErr == <<>>

Errorf(msg, e) == <<msg>> \o e

\* e's message carries cause c's whole message
IncludesCause(e, c) ==
    \E i \in 0..(Len(e) - Len(c)) : SubSeq(e, i + 1, i + Len(c)) = c

\* what the network and the libraries may report
ErrListen == <<"listen udp: address already in use">>
ErrNewClient == <<"stun: no connection provided">>
ErrWrite == <<"write udp: network is unreachable">>
ErrTransactionTimeOut == <<"transaction is timed out">>
ErrAttributeNotFound == <<"attribute not found">>
ErrTurnNewClient == <<"turn: invalid server address">>
ErrAllocate == <<"all retransmissions failed">>

\* the addresses a STUN server may report and a TURN server may allocate
StunAddrs == {[ip |-> "203.0.113.5", port |-> 40000],
              [ip |-> "198.51.100.7", port |-> 5004]}
RelayAddrs == {[ip |-> "192.0.2.10", port |-> 49152],
               [ip |-> "192.0.2.77", port |-> 65535]}

\* a Close() whose defer statement was forgotten
CloseRes_Forgotten(r) == r

\* a deferred Close() of a socket or client
CloseRes(r) == IF r = "open" THEN "closed" ELSE r

NoRet == [ip |-> "", port |-> 0, err |-> NilErr]
NoNatRet == [publicIP |-> "", publicPort |-> 0, relayIP |-> "", relayPort |-> 0,
             err |-> NilErr]
NoMedia == [started |-> FALSE, publicIP |-> "", publicPort |-> 0,
            relayIP |-> "", relayPort |-> 0]

\* uint32(0)
Uint32Zero == [hi |-> 0, lo |-> 0]

\* the rtp.Packet built in the send loop (src/sip.go:340-349)
MakePacket(pt, seq, ts, len) ==
    [Version |-> 2, PayloadType |-> pt, SequenceNumber |-> seq,
     Timestamp |-> ts, SSRC |-> Ssrc, payloadLen |-> len]

\* no packet written yet
NoPacket == MakePacket(0, 0, Uint32Zero, 0)

---------------------------------------------------------------------------
(* generateSDPAnswer (src/sip.go:212-234).                                 *)

Digit(d) ==
    CASE d = 0 -> "0" [] d = 1 -> "1" [] d = 2 -> "2" [] d = 3 -> "3"
      [] d = 4 -> "4" [] d = 5 -> "5" [] d = 6 -> "6" [] d = 7 -> "7"
      [] d = 8 -> "8" [] d = 9 -> "9"

RECURSIVE Itoa(_)
\* fmt's %d of an int
Itoa(n) ==
    IF n < 0 THEN "-" \o Itoa(0 - n)
    ELSE IF n < 10 THEN Digit(n)
    ELSE Itoa(n \div 10) \o Digit(n % 10)

\* the format string of both branches, filled with one address and port
SDPFormat(ip, port) ==
    "v=0\r\n" \o
    "o=- 0 0 IN IP4 " \o ip \o "\r\n" \o
    "s=-\r\n" \o
    "c=IN IP4 " \o ip \o "\r\n" \o
    "t=0 0\r\n" \o
    "m=audio " \o Itoa(port) \o " RTP/AVP 0 96\r\n" \o
    "a=rtpmap:96 opus/8000/1\r\n"

\* generateSDPAnswer with a slip: the relay branch renders the public port
generateSDPAnswer_PublicPort(pIP, pPort, rIP, rPort) ==
    IF rIP # "" THEN SDPFormat(rIP, pPort) ELSE SDPFormat(pIP, pPort)

generateSDPAnswer(pIP, pPort, rIP, rPort) ==
    IF rIP # "" THEN SDPFormat(rIP, rPort) ELSE SDPFormat(pIP, pPort)

---------------------------------------------------------------------------
(* performSTUNWithKeepalive (src/sip.go:121-175).                          *)

\* net.ListenUDP and the deferred conn.Close (123-127)
StunListen ==
    /\ mainPc = "stun_listen"
    /\ \E ok \in BOOLEAN :
         IF ok
         THEN /\ stunConn' = "open"
              /\ mainPc' = "stun_newclient"
              /\ UNCHANGED <<stunEvent, stunRet, errOuter>>
         ELSE /\ stunEvent' = "listen_err"
              /\ errOuter' = ErrListen
              /\ stunRet' = [ip |-> "", port |-> 0,
                             err |-> Errorf("failed to create UDP connection", ErrListen)]
              /\ mainPc' = "nat_after_stun"
              /\ UNCHANGED stunConn
    /\ UNCHANGED <<path, stunClient, publicIP, publicPort, turnEvent, turnConn,
                   turnClient, turnRet, natRet, natLog, acceptedSDP, media>>
    /\ UNCHANGED <<kaVars, sdpVars, sendVars, moreVars>>

\* stun.NewClient and the deferred client.Close (129-133); an error return
\* runs the one deferred call registered so far, conn.Close
StunNewClient ==
    /\ mainPc = "stun_newclient"
    /\ \E ok \in BOOLEAN :
         IF ok
         THEN /\ stunClient' = "open"
              /\ mainPc' = "stun_do"
              /\ UNCHANGED <<stunEvent, stunRet, errOuter, stunConn>>
         ELSE /\ stunEvent' = "client_err"
              /\ errOuter' = ErrNewClient
              /\ stunRet' = [ip |-> "", port |-> 0,
                             err |-> Errorf("failed to create STUN client", ErrNewClient)]
              /\ stunConn' = CloseRes(stunConn)
              /\ mainPc' = "nat_after_stun"
              /\ UNCHANGED stunClient
    /\ UNCHANGED <<path, publicIP, publicPort, turnEvent, turnConn,
                   turnClient, turnRet, natRet, natLog, acceptedSDP, media>>
    /\ UNCHANGED <<kaVars, sdpVars, sendVars, moreVars>>

\* The callback handed to client.Do (138-153), run on event res.  The
\* callback's "err = res.Error" assigns the function-level err: the err of
\* "if err := client.Do(...)" is not yet in scope inside the call.  The
\* "err = fmt.Errorf(...)" of the decode branch assigns the err declared by
\* "if err := xorAddr.GetFrom(...)", which dies with the callback.
\* Yields the function-level err, publicIP and publicPort after the callback.
StunCallback(res, outer, ip, port) ==
    IF res.Error # NilErr
    THEN [errOuter |-> res.Error, publicIP |-> ip, publicPort |-> port]
    ELSE IF res.getFromErr # NilErr
    THEN [errOuter |-> outer, publicIP |-> ip, publicPort |-> port]
    ELSE [errOuter |-> outer, publicIP |-> res.addr.ip, publicPort |-> res.addr.port]

\* the events a binding transaction may end with
StunEvents ==
    {[kind |-> "event_err", Error |-> ErrTransactionTimeOut, getFromErr |-> NilErr,
      addr |-> [ip |-> "", port |-> 0]],
     [kind |-> "malformed", Error |-> NilErr, getFromErr |-> ErrAttributeNotFound,
      addr |-> [ip |-> "", port |-> 0]]}
    \cup {[kind |-> "ok", Error |-> NilErr, getFromErr |-> NilErr, addr |-> a] :
            a \in StunAddrs}

\* client.Do with the callback (136-155).  Do returns an error when the
\* request cannot be started or written (the transport fails); otherwise it
\* waits for the transaction's event, runs the callback and returns nil.
StunDo ==
    /\ mainPc = "stun_do"
    /\ \/ /\ stunEvent' = "transport_err"
          /\ stunRet' = [ip |-> "", port |-> 0,
                         err |-> Errorf("failed to perform STUN request", ErrWrite)]
          /\ stunClient' = CloseRes(stunClient)
          /\ stunConn' = CloseRes(stunConn)
          /\ mainPc' = "nat_after_stun"
          /\ UNCHANGED <<errOuter, publicIP, publicPort>>
       \/ \E res \in StunEvents :
            LET after == StunCallback(res, errOuter, publicIP, publicPort) IN
            /\ stunEvent' = res.kind
            /\ errOuter' = after.errOuter
            /\ publicIP' = after.publicIP
            /\ publicPort' = after.publicPort
            /\ mainPc' = "stun_spawn"
            /\ UNCHANGED <<stunRet, stunClient, stunConn>>
    /\ UNCHANGED <<path, turnEvent, turnConn, turnClient, turnRet, natRet,
                   natLog, acceptedSDP, media>>
    /\ UNCHANGED <<kaVars, sdpVars, sendVars, moreVars>>

\* the go statement of the keepalive goroutine (158-172)
StunSpawnKeepalive ==
    /\ mainPc = "stun_spawn"
    /\ kaPc' = "spawned"
    /\ mainPc' = "stun_return"
    /\ UNCHANGED <<path, stunEvent, stunConn, stunClient, errOuter, publicIP,
                   publicPort, stunRet, turnEvent, turnConn, turnClient, turnRet,
                   natRet, natLog, acceptedSDP, media>>
    /\ UNCHANGED <<now, kaStart, kaNextTick, kaTickPending, kaAfter, kaSent,
                   kaOnClosed>>
    /\ UNCHANGED <<sdpVars, sendVars, moreVars>>

\* "return publicIP, publicPort, nil" (174) and the deferred client.Close
\* and conn.Close
StunReturn ==
    /\ mainPc = "stun_return"
    /\ stunRet' = [ip |-> publicIP, port |-> publicPort, err |-> NilErr]
    /\ stunClient' = CloseRes(stunClient)
    /\ stunConn' = CloseRes(stunConn)
    /\ mainPc' = "nat_after_stun"
    /\ UNCHANGED <<path, stunEvent, errOuter, publicIP, publicPort, turnEvent,
                   turnConn, turnClient, turnRet, natRet, natLog, acceptedSDP,
                   media>>
    /\ UNCHANGED <<kaVars, sdpVars, sendVars, moreVars>>

---------------------------------------------------------------------------
(* performTURN (src/sip.go:178-210).                                       *)

\* net.ListenUDP and the deferred conn.Close (185-189)
TurnListen ==
    /\ mainPc = "turn_listen"
    /\ \E ok \in BOOLEAN :
         IF ok
         THEN /\ turnConn' = "open"
              /\ mainPc' = "turn_newclient"
              /\ UNCHANGED <<turnEvent, turnRet>>
         ELSE /\ turnEvent' = "listen_err"
              /\ turnRet' = [ip |-> "", port |-> 0,
                             err |-> Errorf("failed to create UDP connection", ErrListen)]
              /\ mainPc' = "nat_after_turn"
              /\ UNCHANGED turnConn
    /\ UNCHANGED <<path, stunEvent, stunConn, stunClient, errOuter, publicIP,
                   publicPort, stunRet, turnClient, natRet, natLog, acceptedSDP,
                   media>>
    /\ UNCHANGED <<kaVars, sdpVars, sendVars, moreVars>>

\* turn.NewClient and the deferred client.Close (191-201)
TurnNewClient ==
    /\ mainPc = "turn_newclient"
    /\ \E ok \in BOOLEAN :
         IF ok
         THEN /\ turnClient' = "open"
              /\ mainPc' = "turn_allocate"
              /\ UNCHANGED <<turnEvent, turnRet, turnConn>>
         ELSE /\ turnEvent' = "client_err"
              /\ turnRet' = [ip |-> "", port |-> 0,
                             err |-> Errorf("failed to create TURN client", ErrTurnNewClient)]
              /\ turnConn' = CloseRes(turnConn)
              /\ mainPc' = "nat_after_turn"
              /\ UNCHANGED turnClient
    /\ UNCHANGED <<path, stunEvent, stunConn, stunClient, errOuter, publicIP,
                   publicPort, stunRet, natRet, natLog, acceptedSDP, media>>
    /\ UNCHANGED <<kaVars, sdpVars, sendVars, moreVars>>

\* client.Allocate, the return and the deferred client.Close and conn.Close
\* (203-209)
TurnAllocate ==
    /\ mainPc = "turn_allocate"
    /\ \/ /\ turnEvent' = "allocate_err"
          /\ turnRet' = [ip |-> "", port |-> 0,
                         err |-> Errorf("failed to allocate relay address", ErrAllocate)]
       \/ \E a \in RelayAddrs :
            /\ turnEvent' = "ok"
            /\ turnRet' = [ip |-> a.ip, port |-> a.port, err |-> NilErr]
    /\ turnClient' = CloseRes(turnClient)
    /\ turnConn' = CloseRes(turnConn)
    /\ mainPc' = "nat_after_turn"
    /\ UNCHANGED <<path, stunEvent, stunConn, stunClient, errOuter, publicIP,
                   publicPort, stunRet, natRet, natLog, acceptedSDP, media>>
    /\ UNCHANGED <<kaVars, sdpVars, sendVars, moreVars>>

---------------------------------------------------------------------------
(* performNATTraversal (src/sip.go:104-118).                               *)

\* "return publicIP, publicPort, "", 0, nil" (108)
NatStunReturn(ip, port) ==
    [publicIP |-> ip, publicPort |-> port, relayIP |-> "", relayPort |-> 0,
     err |-> NilErr]

\* "return "", 0, "", 0, fmt.Errorf("TURN fallback failed: %v", err)" (115);
\* err is by now performTURN's error, the STUN error was overwritten at 113
NatTurnFailure(turnErr) ==
    [publicIP |-> "", publicPort |-> 0, relayIP |-> "", relayPort |-> 0,
     err |-> Errorf("TURN fallback failed", turnErr)]

\* line 117 with a slip: the relay address is returned as the public one
NatTurnSuccess_AsPublic(ip, port) ==
    [publicIP |-> ip, publicPort |-> port, relayIP |-> "", relayPort |-> 0,
     err |-> NilErr]

\* "return "", 0, relayIP, relayPort, nil" (117)
NatTurnSuccess(ip, port) ==
    [publicIP |-> "", publicPort |-> 0, relayIP |-> ip, relayPort |-> port,
     err |-> NilErr]

\* lines 106-113, from performSTUNWithKeepalive's return on
NatAfterStun ==
    /\ mainPc = "nat_after_stun"
    /\ IF stunRet.err = NilErr
       THEN /\ natRet' = NatStunReturn(stunRet.ip, stunRet.port)
            /\ mainPc' = "nat_returned"
            /\ UNCHANGED natLog
       ELSE /\ natLog' = Append(natLog, Errorf("STUN failed", stunRet.err))
            /\ mainPc' = "turn_listen"
            /\ UNCHANGED natRet
    /\ UNCHANGED <<path, stunEvent, stunConn, stunClient, errOuter, publicIP,
                   publicPort, stunRet, turnEvent, turnConn, turnClient, turnRet,
                   acceptedSDP, media>>
    /\ UNCHANGED <<kaVars, sdpVars, sendVars, moreVars>>

\* lines 113-117, from performTURN's return on
NatAfterTurn ==
    /\ mainPc = "nat_after_turn"
    /\ natRet' = IF turnRet.err # NilErr
                 THEN NatTurnFailure(turnRet.err)
                 ELSE NatTurnSuccess(turnRet.ip, turnRet.port)
    /\ mainPc' = "nat_returned"
    /\ UNCHANGED <<path, stunEvent, stunConn, stunClient, errOuter, publicIP,
                   publicPort, stunRet, turnEvent, turnConn, turnClient, turnRet,
                   natLog, acceptedSDP, media>>
    /\ UNCHANGED <<kaVars, sdpVars, sendVars, moreVars>>

---------------------------------------------------------------------------
(* main (src/sip.go:17-101): the two places that resolve an address and    *)
(* start the media loop.                                                   *)

\* the OnInvite handler up to its call of performNATTraversal (40-48)
MainOnInvite ==
    /\ mainPc = "idle"
    /\ path' = "invite"
    /\ mainPc' = "stun_listen"
    /\ UNCHANGED <<stunEvent, stunConn, stunClient, errOuter, publicIP,
                   publicPort, stunRet, turnEvent, turnConn, turnClient, turnRet,
                   natRet, natLog, acceptedSDP, media>>
    /\ UNCHANGED <<kaVars, sdpVars, sendVars, moreVars>>

\* the event loop on EventTypeConnected up to its call of
\* performNATTraversal (75-80)
MainOnConnected ==
    /\ mainPc = "idle"
    /\ path' = "connected"
    /\ mainPc' = "stun_listen"
    /\ UNCHANGED <<stunEvent, stunConn, stunClient, errOuter, publicIP,
                   publicPort, stunRet, turnEvent, turnConn, turnClient, turnRet,
                   natRet, natLog, acceptedSDP, media>>
    /\ UNCHANGED <<kaVars, sdpVars, sendVars, moreVars>>

\* the arguments of "go handleRTPCommunication(session, publicIP, publicPort,
\* relayIP, relayPort)" (63, 89)
StartMedia(r) ==
    [started |-> TRUE, publicIP |-> r.publicIP, publicPort |-> r.publicPort,
     relayIP |-> r.relayIP, relayPort |-> r.relayPort]

\* the OnInvite handler after performNATTraversal (49-63): log.Fatalf on an
\* error; otherwise the SDP answer and the media loop
MainInviteAfterNat ==
    /\ mainPc = "nat_returned"
    /\ path = "invite"
    /\ IF natRet.err # NilErr
       THEN /\ mainPc' = "fatal"
            /\ UNCHANGED <<acceptedSDP, media>>
       ELSE /\ acceptedSDP' = generateSDPAnswer(natRet.publicIP, natRet.publicPort,
                                                natRet.relayIP, natRet.relayPort)
            /\ media' = StartMedia(natRet)
            /\ mainPc' = "media"
    /\ UNCHANGED <<path, stunEvent, stunConn, stunClient, errOuter, publicIP,
                   publicPort, stunRet, turnEvent, turnConn, turnClient, turnRet,
                   natRet, natLog>>
    /\ UNCHANGED <<kaVars, sdpVars, sendVars, moreVars>>

\* the event loop after performNATTraversal (81-89)
MainConnectedAfterNat ==
    /\ mainPc = "nat_returned"
    /\ path = "connected"
    /\ IF natRet.err # NilErr
       THEN /\ mainPc' = "fatal"
            /\ UNCHANGED media
       ELSE /\ media' = StartMedia(natRet)
            /\ mainPc' = "media"
    /\ UNCHANGED <<path, stunEvent, stunConn, stunClient, errOuter, publicIP,
                   publicPort, stunRet, turnEvent, turnConn, turnClient, turnRet,
                   natRet, natLog, acceptedSDP>>
    /\ UNCHANGED <<kaVars, sdpVars, sendVars, moreVars>>

---------------------------------------------------------------------------
(* The keepalive goroutine (src/sip.go:158-172) and the clock.             *)

\* the first tick of a ticker after the one due at `due`, seen at time t >= due
NextTickAfter(due, t) ==
    due + KeepaliveInterval * (((t - due) \div KeepaliveInterval) + 1)

\* time.NewTicker (159-160) and the first entry into the select, whose
\* time.After(2 * time.Minute) starts a timer of its own (168)
KaStart ==
    /\ kaPc = "spawned"
    /\ kaStart' = now
    /\ kaNextTick' = now + KeepaliveInterval
    /\ kaTickPending' = FALSE
    /\ kaAfter' = now + KeepaliveWindow
    /\ kaPc' = "select"
    /\ UNCHANGED <<now, kaSent, kaOnClosed>>
    /\ UNCHANGED <<natVars, sdpVars, sendVars, moreVars>>

\* case <-ticker.C (164-167): client.Do with a nil handler sends an
\* indication, or fails at once on a closed client; the error is logged and
\* the loop enters the select again, with a new time.After timer
KaTickCase ==
    /\ kaPc = "select"
    /\ kaTickPending
    /\ kaTickPending' = FALSE
    /\ IF stunClient = "open"
       THEN kaSent' = kaSent + 1 /\ UNCHANGED kaOnClosed
       ELSE kaOnClosed' = kaOnClosed + 1 /\ UNCHANGED kaSent
    /\ kaAfter' = now + KeepaliveWindow
    /\ UNCHANGED <<now, kaPc, kaStart, kaNextTick>>
    /\ UNCHANGED <<natVars, sdpVars, sendVars, moreVars>>

\* case <-time.After(2 * time.Minute) (168-169): return, and the deferred
\* ticker.Stop
KaExpireCase ==
    /\ kaPc = "select"
    /\ now >= kaAfter
    /\ kaPc' = "done"
    /\ kaTickPending' = FALSE
    /\ UNCHANGED <<now, kaStart, kaNextTick, kaAfter, kaSent, kaOnClosed>>
    /\ UNCHANGED <<natVars, sdpVars, sendVars, moreVars>>

\* TimeStep seconds pass; a running ticker whose tick falls due buffers one
\* tick in its channel (of capacity one) and schedules the next
Advance ==
    /\ now + TimeStep <= MaxTime
    /\ now' = now + TimeStep
    /\ IF kaPc = "select" /\ now' >= kaNextTick
       THEN /\ kaTickPending' = TRUE
            /\ kaNextTick' = NextTickAfter(kaNextTick, now')
       ELSE UNCHANGED <<kaTickPending, kaNextTick>>
    /\ UNCHANGED <<kaPc, kaStart, kaAfter, kaSent, kaOnClosed>>
    /\ UNCHANGED <<natVars, sdpVars, sendVars, moreVars>>

---------------------------------------------------------------------------
(* Initial values of each group of variables.                              *)

InitNatVars ==
    /\ mainPc = "idle"
    /\ path = "none"
    /\ stunEvent = "none"
    /\ stunConn = "none"
    /\ stunClient = "none"
    /\ errOuter = NilErr
    /\ publicIP = ""
    /\ publicPort = 0
    /\ stunRet = NoRet
    /\ turnEvent = "none"
    /\ turnConn = "none"
    /\ turnClient = "none"
    /\ turnRet = NoRet
    /\ natRet = NoNatRet
    /\ natLog = <<>>
    /\ acceptedSDP = ""
    /\ media = NoMedia

InitKaVars ==
    /\ now = 0
    /\ kaPc = "idle"
    /\ kaStart = 0
    /\ kaNextTick = 0
    /\ kaTickPending = FALSE
    /\ kaAfter = 0
    /\ kaSent = 0
    /\ kaOnClosed = 0

IdleSdpVars ==
    /\ sdpIn = NoNatRet
    /\ sdpOut = ""
    /\ sdpCalled = FALSE

IdleSendVars ==
    /\ sendPc = "idle"
    /\ selectedCodec = ""
    /\ sequenceNumber = 0
    /\ timestamp = Uint32Zero
    /\ nWritten = 0
    /\ lastPacket = NoPacket
    /\ sendErr = ""
    /\ encCreated = 0
    /\ encDestroyed = 0

NoDatagram == [parse |-> "none", payloadType |-> 0, opus |-> "none"]

IdleRecvVars ==
    /\ mediaPc = "idle"
    /\ rtpConn = "none"
    /\ rtpCloses = 0
    /\ audioCapture = "none"
    /\ audioPlayback = "none"
    /\ recvPc = "idle"
    /\ recvErr = ""
    /\ nRead = 0
    /\ nSinkWrites = 0
    /\ lastDatagram = NoDatagram
    /\ decCreated = 0
    /\ decDestroyed = 0
    /\ writtenAtRecvStop = 0

IdlePcmVars ==
    /\ pcmPc = "idle"
    /\ pcmIn = <<>>
    /\ pcmEncoded = <<>>
    /\ pcmDecoded = <<>>
    /\ pcmErr = ""

Workers == 1..NumThreads
Tasks == 1..MaxTasks

IdlePoolVars ==
    /\ poolPc = "idle"
    /\ workerPc = [w \in Workers |-> "none"]
    /\ workerTask = [w \in Workers |-> 0]
    /\ chanClosed = FALSE
    /\ wg = 0
    /\ taskState = [t \in Tasks |-> "new"]
    /\ taskOutcome = [t \in Tasks |-> ""]
    /\ waitPc = "none"
    /\ waitedFor = {}
    /\ unfinishedAtWait = {}
    /\ taskRuns = [t \in Tasks |-> 0]
    /\ taskConn = [t \in Tasks |-> "none"]

Followers == 1..MaxFollowers

NoSend == [ch |-> "none", val |-> 0, why |-> ""]
NoSyncRet == [returned |-> FALSE, ratingsNil |-> TRUE, ratings |-> <<>>,
              err |-> NilErr]

IdleSyncVars ==
    /\ syncPc = "idle"
    /\ nFollowers = 0
    /\ spawned = 0
    /\ swg = 0
    /\ gPc = [i \in Followers |-> "none"]
    /\ gSend = [i \in Followers |-> NoSend]
    /\ ratingCh = <<>>
    /\ errCh = <<>>
    /\ chansClosed = FALSE
    /\ nSends = [i \in Followers |-> 0]
    /\ syncRet = NoSyncRet

IdleSrvVars ==
    /\ srvPc = "idle"
    /\ ctxDone = FALSE
    /\ listener = "none"
    /\ sigPc = "none"

IdleRestVars == IdlePcmVars /\ IdlePoolVars /\ IdleSyncVars /\ IdleSrvVars

IdleMoreVars == IdleRecvVars /\ IdleRestVars

---------------------------------------------------------------------------
(* SpecNat: one call leg from the signalling event to the media loop's     *)
(* start, with its keepalive goroutine.                                    *)

InitNat ==
    InitNatVars /\ InitKaVars /\ IdleSdpVars /\ IdleSendVars /\ IdleMoreVars

NextNat ==
    \/ MainOnInvite
    \/ MainOnConnected
    \/ StunListen
    \/ StunNewClient
    \/ StunDo
    \/ StunSpawnKeepalive
    \/ StunReturn
    \/ NatAfterStun
    \/ TurnListen
    \/ TurnNewClient
    \/ TurnAllocate
    \/ NatAfterTurn
    \/ MainInviteAfterNat
    \/ MainConnectedAfterNat
    \/ KaStart
    \/ KaTickCase
    \/ KaExpireCase
    \/ Advance

SpecNat == InitNat /\ [][NextNat]_vars

---------------------------------------------------------------------------
(* SpecSdp: generateSDPAnswer on arguments drawn from small sets.          *)

SdpIPs == {"", "203.0.113.5", "192.0.2.10"}
SdpPorts == {0, 7, 5004, 40000, 65535}

InitSdp ==
    /\ InitNatVars /\ InitKaVars /\ IdleSendVars /\ IdleMoreVars
    /\ sdpIn \in [publicIP : SdpIPs, publicPort : SdpPorts,
                  relayIP : SdpIPs, relayPort : SdpPorts, err : {NilErr}]
    /\ sdpOut = ""
    /\ sdpCalled = FALSE

\* one call of generateSDPAnswer
CallGenerateSDPAnswer ==
    /\ ~sdpCalled
    /\ sdpOut' = generateSDPAnswer(sdpIn.publicIP, sdpIn.publicPort,
                                   sdpIn.relayIP, sdpIn.relayPort)
    /\ sdpCalled' = TRUE
    /\ UNCHANGED sdpIn
    /\ UNCHANGED <<natVars, kaVars, sendVars, moreVars>>

NextSdp == CallGenerateSDPAnswer

SpecSdp == InitSdp /\ [][NextSdp]_vars

---------------------------------------------------------------------------
(* The send loop of handleRTPCommunication (src/sip.go:308-367).           *)

Codecs == {"PCMU", "Opus", "G729"}

\* the sizes an Opus frame may encode to
OpusSizes == {40}

\* "sequenceNumber++" with a slip: the counter is not a uint16
NextSequenceNumber_NoWrap(seq) == seq + 1

\* "sequenceNumber++" on a uint16 (364)
NextSequenceNumber(seq) == (seq + 1) % SeqModulus

\* "timestamp += 160" with a slip: the counter is wider than 32 bits, the
\* carry out of the high half is kept
NextTimestamp_NoWrap(ts) ==
    LET sum == ts.lo + TimestampStep IN
    [hi |-> ts.hi + (sum \div HalfWord), lo |-> sum % HalfWord]

\* "timestamp += 160" on a uint32 (365): add to the low half, carry into the
\* high half, drop the carry out of the high half
NextTimestamp(ts) ==
    LET sum == ts.lo + TimestampStep IN
    [hi |-> (ts.hi + (sum \div HalfWord)) % HalfWord, lo |-> sum % HalfWord]

\* what the Opus library may do in one encodeOpus or decodeOpus call: fail
\* to create the handle, fail to encode or decode, or succeed
OpusOutcomes == {"new_err", "codec_err", "ok"}

\* encodeOpus with a slip: encoder.Destroy() is called at the end of the
\* function instead of being deferred, so a failed Encode skips it
encodeOpus_DestroyAtEnd(lib) ==
    CASE lib = "new_err" ->
           {[err |-> "failed to create Opus encoder", payloadLen |-> 0,
             created |-> 0, destroyed |-> 0]}
      [] lib = "codec_err" ->
           {[err |-> "failed to encode Opus audio", payloadLen |-> 0,
             created |-> 1, destroyed |-> 0]}
      [] OTHER ->
           {[err |-> "", payloadLen |-> n, created |-> 1, destroyed |-> 1] :
              n \in OpusSizes}

\* encodeOpus (370-385) under library outcome lib: what it returns, and the
\* encoders it creates and destroys.  opus.NewEncoder failing returns before
\* the defer; afterwards the deferred encoder.Destroy() runs on every return.
encodeOpus(lib) ==
    CASE lib = "new_err" ->
           {[err |-> "failed to create Opus encoder", payloadLen |-> 0,
             created |-> 0, destroyed |-> 0]}
      [] lib = "codec_err" ->
           {[err |-> "failed to encode Opus audio", payloadLen |-> 0,
             created |-> 1, destroyed |-> 1]}
      [] OTHER ->
           {[err |-> "", payloadLen |-> n, created |-> 1, destroyed |-> 1] :
              n \in OpusSizes}

\* The codec switch (319-332): the encoder's outcome, the payload's length
\* and the payload type.  encodeG711 (440-447) never fails and yields one
\* byte per sample; the default case logs and leaves the switch (its break
\* is the switch's), with err, encodedAudio and payloadType as they were:
\* nil, nil and 0.
EncodeOutcomes(codec) ==
    CASE codec = "PCMU" ->
           {[err |-> "", payloadLen |-> FrameSamples, payloadType |-> 0,
             created |-> 0, destroyed |-> 0]}
      [] codec = "Opus" ->
           {[err |-> r.err, payloadLen |-> r.payloadLen, payloadType |-> 96,
             created |-> r.created, destroyed |-> r.destroyed] :
              r \in UNION {encodeOpus(lib) : lib \in OpusOutcomes}}
      [] OTHER ->
           {[err |-> "", payloadLen |-> 0, payloadType |-> 0,
             created |-> 0, destroyed |-> 0]}

\* a break with a slip: the failure is logged and the loop goes on
SendBreak_Continue(why) ==
    /\ sendErr' = why
    /\ UNCHANGED <<sendPc, selectedCodec, sequenceNumber, timestamp, nWritten,
                   lastPacket>>

\* the loop stops: a break at 316, 336, 355 or 361
SendBreak(why) ==
    /\ sendPc' = "stopped"
    /\ sendErr' = why
    /\ UNCHANGED <<selectedCodec, sequenceNumber, timestamp, nWritten, lastPacket>>

\* how many packets the send loop is followed for
SendHorizon == IF mediaPc = "idle" THEN MaxPackets ELSE MediaPackets

\* one iteration of the loop (311-367)
SendIteration ==
    /\ sendPc = "loop"
    /\ \/ nWritten < SendHorizon
       \/ nWritten >= LateStart /\ nWritten < LateStart + LateRun
    /\ \/ /\ SendBreak("Failed to capture audio")
          /\ UNCHANGED <<encCreated, encDestroyed>>
       \/ \E enc \in EncodeOutcomes(selectedCodec) :
            /\ encCreated' = encCreated + enc.created
            /\ encDestroyed' = encDestroyed + enc.destroyed
            /\ IF enc.err # ""
               THEN SendBreak(enc.err)
               ELSE LET packet == MakePacket(enc.payloadType, sequenceNumber,
                                             timestamp, enc.payloadLen) IN
                    \/ SendBreak("Failed to marshal RTP packet")
                    \/ SendBreak("Failed to send RTP packet")
                    \/ /\ lastPacket' = packet
                       /\ nWritten' = nWritten + 1
                       /\ sequenceNumber' = NextSequenceNumber(sequenceNumber)
                       /\ timestamp' = NextTimestamp(timestamp)
                       /\ UNCHANGED <<sendPc, selectedCodec, sendErr>>
    /\ UNCHANGED <<natVars, kaVars, sdpVars, moreVars>>

\* handleRTPCommunication up to the loop: "sequenceNumber := uint16(0)",
\* "timestamp := uint32(0)" (309-310), for each codec a session may select
InitSendVars ==
    /\ sendPc = "loop"
    /\ selectedCodec \in Codecs
    /\ sequenceNumber = 0
    /\ timestamp = Uint32Zero
    /\ nWritten = 0
    /\ lastPacket = NoPacket
    /\ sendErr = ""
    /\ encCreated = 0
    /\ encDestroyed = 0

InitSend ==
    /\ InitNatVars /\ InitKaVars /\ IdleSdpVars /\ IdleMoreVars
    /\ InitSendVars

NextSend == SendIteration

SpecSend == InitSend /\ [][NextSend]_vars

---------------------------------------------------------------------------
(* SpecSendLong: the send loop from its start and from the state it has    *)
(* after LateStart packets, all written without a failure.                 *)

\* the uint16 sequenceNumber after n increments from 0
SequenceNumberAfter(n) == n % SeqModulus

\* the uint32 timestamp after n additions of 160 to 0, as halves: with
\* n = nh * 2^16 + nl the sum is (nh * 160) * 2^16 + nl * 160
TimestampAfter(n) ==
    LET nh == n \div HalfWord
        nl == n % HalfWord
        low == nl * TimestampStep
    IN  [hi |-> (nh * TimestampStep + (low \div HalfWord)) % HalfWord,
         lo |-> low % HalfWord]

\* the loop's variables after LateStart iterations that each wrote a packet
InitSendLate ==
    /\ InitNatVars /\ InitKaVars /\ IdleSdpVars /\ IdleMoreVars
    /\ sendPc = "loop"
    /\ selectedCodec \in Codecs
    /\ sequenceNumber = SequenceNumberAfter(LateStart)
    /\ timestamp = TimestampAfter(LateStart)
    /\ nWritten = LateStart
    /\ \E enc \in EncodeOutcomes(selectedCodec) :
         /\ enc.err = ""
         /\ lastPacket = MakePacket(enc.payloadType,
                                    SequenceNumberAfter(LateStart - 1),
                                    TimestampAfter(LateStart - 1), enc.payloadLen)
         /\ encCreated = LateStart * enc.created
         /\ encDestroyed = LateStart * enc.destroyed
    /\ sendErr = ""

SpecSendLong == (InitSend \/ InitSendLate) /\ [][NextSend]_vars

---------------------------------------------------------------------------
(* SpecMedia: handleRTPCommunication (src/sip.go:237-368): the socket and   *)
(* the audio streams with their deferred closes, the receive goroutine and  *)
(* the send loop.                                                           *)

\* decodeOpus (387-402) under library outcome lib: what it returns, and the
\* decoders it creates and destroys.  opus.NewDecoder failing returns before
\* the defer; afterwards the deferred decoder.Destroy() runs on every return.
decodeOpus(lib) ==
    CASE lib = "new_err" ->
           [err |-> "failed to create Opus decoder", samples |-> 0,
            created |-> 0, destroyed |-> 0]
      [] lib = "codec_err" ->
           [err |-> "failed to decode Opus audio", samples |-> 0,
            created |-> 1, destroyed |-> 1]
      [] OTHER ->
           [err |-> "", samples |-> FrameSamples, created |-> 1, destroyed |-> 1]

\* The datagrams a peer may send: parse is what packet.Unmarshal makes of the
\* bytes ("truncated": fewer bytes than the fixed header), payloadType the
\* parsed header's field, opus what the Opus library does with the payload.
Datagrams ==
    {[parse |-> "truncated", payloadType |-> 0, opus |-> "ok"]}
    \cup {[parse |-> "ok", payloadType |-> pt, opus |-> "ok"] : pt \in {0, 5}}
    \cup {[parse |-> "ok", payloadType |-> 96, opus |-> lib] : lib \in OpusOutcomes}

\* the body of the receive loop with a slip: the default case of the
\* payload-type switch leaves the switch only, and the nil audio is played
HandleDatagram_DefaultFallsThrough(d) ==
    IF d.parse # "ok"
    THEN [log |-> "Failed to parse RTP packet", play |-> FALSE,
          created |-> 0, destroyed |-> 0]
    ELSE CASE d.payloadType = 0 ->
                [log |-> "", play |-> TRUE, created |-> 0, destroyed |-> 0]
           [] d.payloadType = 96 ->
                LET r == decodeOpus(d.opus) IN
                [log |-> IF r.err # "" THEN "Failed to decode audio" ELSE "",
                 play |-> r.err = "", created |-> r.created,
                 destroyed |-> r.destroyed]
           [] OTHER ->
                [log |-> "Unsupported payload type", play |-> TRUE,
                 created |-> 0, destroyed |-> 0]

\* The body of the receive loop after a successful read (277-304): whether
\* audioPlayback.Write is reached, what is logged, and the decoders created
\* and destroyed.  Unmarshal failing, an unlisted payload type and a decode
\* error each "continue"; decodeG711 (449-456) never fails.
HandleDatagram(d) ==
    IF d.parse # "ok"
    THEN [log |-> "Failed to parse RTP packet", play |-> FALSE,
          created |-> 0, destroyed |-> 0]
    ELSE CASE d.payloadType = 0 ->
                [log |-> "", play |-> TRUE, created |-> 0, destroyed |-> 0]
           [] d.payloadType = 96 ->
                LET r == decodeOpus(d.opus) IN
                [log |-> IF r.err # "" THEN "Failed to decode audio" ELSE "",
                 play |-> r.err = "", created |-> r.created,
                 destroyed |-> r.destroyed]
           [] OTHER ->
                [log |-> "Unsupported payload type", play |-> FALSE,
                 created |-> 0, destroyed |-> 0]

\* ReadFromUDP with a slip: a read on a closed socket stays blocked
ReadFromUDP_BlocksWhenClosed(conn) ==
    IF conn = "open" THEN {"datagram", "error"} ELSE {}

\* rtpConn.ReadFromUDP (271): on an open socket a datagram arrives or the
\* network fails; on a closed socket the read, blocked or new, returns an
\* error
ReadFromUDP(conn) ==
    IF conn = "open" THEN {"datagram", "error"} ELSE {"error"}

\* 237-268 and 309-310: the socket is dialled, the streams are started, the
\* receive goroutine is started and the send loop is entered.  A failing
\* DialUDP or stream start ends the process (log.Fatalf).
MediaSetup ==
    /\ mediaPc = "called"
    /\ \/ /\ mediaPc' = "fatal"
          /\ UNCHANGED <<rtpConn, audioCapture, audioPlayback, recvPc, sendPc>>
       \/ /\ mediaPc' = "running"
          /\ rtpConn' = "open"
          /\ audioCapture' = "open"
          /\ audioPlayback' = "open"
          /\ recvPc' = "loop"
          /\ sendPc' = "loop"
    /\ UNCHANGED <<rtpCloses, recvErr, nRead, nSinkWrites, lastDatagram,
                   decCreated, decDestroyed, writtenAtRecvStop>>
    /\ UNCHANGED <<selectedCodec, sequenceNumber, timestamp, nWritten,
                   lastPacket, sendErr, encCreated, encDestroyed>>
    /\ UNCHANGED <<natVars, kaVars, sdpVars, restVars>>

\* the read of the receive loop returns an error: log and break (271-275)
RecvReadFails ==
    /\ recvPc = "loop"
    /\ "error" \in ReadFromUDP(rtpConn)
    /\ recvPc' = "stopped"
    /\ recvErr' = "Failed to read RTP packet"
    /\ writtenAtRecvStop' = nWritten
    /\ UNCHANGED <<mediaPc, rtpConn, rtpCloses, audioCapture, audioPlayback,
                   nRead, nSinkWrites, lastDatagram, decCreated, decDestroyed>>
    /\ UNCHANGED <<natVars, kaVars, sdpVars, sendVars, restVars>>

\* the read returns a datagram, which is parsed, decoded and played (271-304);
\* a failing audioPlayback.Write is logged only (302-304)
RecvDatagram ==
    /\ recvPc = "loop"
    /\ nRead < MaxDatagrams
    /\ "datagram" \in ReadFromUDP(rtpConn)
    /\ \E d \in Datagrams :
         LET h == HandleDatagram(d) IN
         /\ lastDatagram' = d
         /\ nRead' = nRead + 1
         /\ nSinkWrites' = IF h.play THEN nSinkWrites + 1 ELSE nSinkWrites
         /\ decCreated' = decCreated + h.created
         /\ decDestroyed' = decDestroyed + h.destroyed
    /\ UNCHANGED <<mediaPc, rtpConn, rtpCloses, audioCapture, audioPlayback,
                   recvPc, recvErr, writtenAtRecvStop>>
    /\ UNCHANGED <<natVars, kaVars, sdpVars, sendVars, restVars>>

\* one iteration of the receive goroutine's loop (270-305)
RecvIteration == RecvReadFails \/ RecvDatagram

\* the read of the receive loop on the closed socket
RecvReadOnClosed == rtpConn = "closed" /\ RecvReadFails

\* the send loop has been left: handleRTPCommunication returns (368) and its
\* deferred calls run, last registered first: audioPlayback.Close (265),
\* audioCapture.Close (261), rtpConn.Close (257)
MediaReturn ==
    /\ mediaPc = "running"
    /\ sendPc = "stopped"
    /\ mediaPc' = "returned"
    /\ audioPlayback' = CloseRes(audioPlayback)
    /\ audioCapture' = CloseRes(audioCapture)
    /\ rtpConn' = CloseRes(rtpConn)
    /\ rtpCloses' = rtpCloses + 1
    /\ UNCHANGED <<recvPc, recvErr, nRead, nSinkWrites, lastDatagram,
                   decCreated, decDestroyed, writtenAtRecvStop>>
    /\ UNCHANGED <<natVars, kaVars, sdpVars, sendVars, restVars>>

\* handleRTPCommunication has been called for a session with some codec
InitMedia ==
    /\ InitNatVars /\ InitKaVars /\ IdleSdpVars /\ IdleRestVars
    /\ sendPc = "idle"
    /\ selectedCodec \in Codecs
    /\ sequenceNumber = 0
    /\ timestamp = Uint32Zero
    /\ nWritten = 0
    /\ lastPacket = NoPacket
    /\ sendErr = ""
    /\ encCreated = 0
    /\ encDestroyed = 0
    /\ mediaPc = "called"
    /\ rtpConn = "none"
    /\ rtpCloses = 0
    /\ audioCapture = "none"
    /\ audioPlayback = "none"
    /\ recvPc = "idle"
    /\ recvErr = ""
    /\ nRead = 0
    /\ nSinkWrites = 0
    /\ lastDatagram = NoDatagram
    /\ decCreated = 0
    /\ decDestroyed = 0
    /\ writtenAtRecvStop = 0

NextMedia == MediaSetup \/ SendIteration \/ RecvIteration \/ MediaReturn

\* The function goes on after its loop, so MediaReturn is taken once it is
\* enabled; a read on a closed socket returns.  Nothing obliges the peer to
\* send or the network to fail, and neither loop is obliged to fail.
SpecMedia ==
    /\ InitMedia
    /\ [][NextMedia]_vars
    /\ WF_vars(MediaReturn)
    /\ WF_vars(RecvReadOnClosed)

---------------------------------------------------------------------------
(* SpecPcm: encodeG711 and decodeG711 (src/sip.go:440-456) on frames of    *)
(* 160 samples.  g711.EncodePCMU and g711.DecodePCMU are not part of the   *)
(* repository's files; they are modelled as the specification describes    *)
(* them: the G.711 mu-law transform, computed arithmetically per sample.   *)

\* G.711 mu-law: the bias added to a magnitude and the largest magnitude
UlawBias == 132
UlawClip == 32635

\* the frames SpecPcm starts from: PcmRamps ramps of consecutive sample
\* values, which together hold every 16-bit value
PcmRamps == 410

Abs(x) == IF x < 0 THEN -x ELSE x

\* the segment of a biased magnitude v in 128..32767: v lies in
\* [2^(e+7), 2^(e+8))
UlawSegment(v) == CHOOSE e \in 0..7 : v \div (2^(e + 7)) = 1

\* g711.EncodePCMU: sign, segment and four mantissa bits, complemented
EncodePCMU(sample) ==
    LET sign == IF sample < 0 THEN 128 ELSE 0
        mag == IF Abs(sample) > UlawClip THEN UlawClip ELSE Abs(sample)
        v == mag + UlawBias
        e == UlawSegment(v)
        m == (v \div (2^(e + 3))) % 16
    IN  255 - (sign + e * 16 + m)

\* g711.DecodePCMU: the middle of the code's interval
DecodePCMU(b) ==
    LET u == 255 - b
        e == (u \div 16) % 8
        m == u % 16
        mag == (m * 8 + UlawBias) * (2^e) - UlawBias
    IN  IF u >= 128 THEN -mag ELSE mag

\* int16(x) for a difference of two samples: saturated here
ClampInt16(x) == IF x > 32767 THEN 32767 ELSE IF x < -32768 THEN -32768 ELSE x

\* encodeG711 with a slip: each sample is coded as its difference from the
\* sample before it
encodeG711_Differential(audioData) ==
    [data |-> [i \in 1..Len(audioData) |->
                  EncodePCMU(IF i = 1 THEN audioData[i]
                             ELSE ClampInt16(audioData[i] - audioData[i - 1]))],
     err |-> ""]

\* encodeG711 (440-447): a slice of len(audioData) bytes, byte i the code of
\* sample i; the error returned is always nil
encodeG711(audioData) ==
    [data |-> [i \in 1..Len(audioData) |-> EncodePCMU(audioData[i])],
     err |-> ""]

\* decodeG711 (449-456): a slice of len(encodedData) samples, sample i
\* decoded from byte i; the error returned is always nil
decodeG711(encodedData) ==
    [data |-> [i \in 1..Len(encodedData) |-> DecodePCMU(encodedData[i])],
     err |-> ""]

\* frame number k of the ramp through all 16-bit values
RampFrame(k) ==
    [i \in 1..FrameSamples |-> ClampInt16(-32768 + k * FrameSamples + (i - 1))]

\* a frame of sample b with sample a at position pos
SpikeFrame(a, pos, b) == [i \in 1..FrameSamples |-> IF i = pos THEN a ELSE b]

SpikeSamples == {-32768, -1, 0, 1000, 32767}
SpikePositions == {1, 80, FrameSamples}

PcmFrames ==
    {RampFrame(k) : k \in 0..(PcmRamps - 1)}
    \cup {SpikeFrame(a, pos, b) :
            a \in SpikeSamples, pos \in SpikePositions, b \in SpikeSamples}

\* the codec switch calls encodeG711(audioData) (323)
PcmEncode ==
    /\ pcmPc = "frame"
    /\ LET r == encodeG711(pcmIn) IN
         /\ pcmEncoded' = r.data
         /\ pcmErr' = r.err
    /\ pcmPc' = "encoded"
    /\ UNCHANGED <<pcmIn, pcmDecoded>>
    /\ UNCHANGED <<natVars, kaVars, sdpVars, sendVars, recvVars, poolVars,
                   syncVars, srvVars>>

\* the peer's receive goroutine calls decodeG711(packet.Payload) (288)
PcmDecode ==
    /\ pcmPc = "encoded"
    /\ pcmErr = ""
    /\ LET r == decodeG711(pcmEncoded) IN
         /\ pcmDecoded' = r.data
         /\ pcmErr' = r.err
    /\ pcmPc' = "decoded"
    /\ UNCHANGED <<pcmIn, pcmEncoded>>
    /\ UNCHANGED <<natVars, kaVars, sdpVars, sendVars, recvVars, poolVars,
                   syncVars, srvVars>>

InitPcm ==
    /\ InitNatVars /\ InitKaVars /\ IdleSdpVars /\ IdleSendVars
    /\ IdleRecvVars /\ IdlePoolVars /\ IdleSyncVars /\ IdleSrvVars
    /\ pcmPc = "frame"
    /\ pcmIn \in PcmFrames
    /\ pcmEncoded = <<>>
    /\ pcmDecoded = <<>>
    /\ pcmErr = ""

NextPcm == PcmEncode \/ PcmDecode

SpecPcm == InitPcm /\ [][NextPcm]_vars

---------------------------------------------------------------------------
(* SpecPool: Pool (src/pool.go) with tasks whose Run is ConnectionTask.Run  *)
(* (src/concurtcp/main.go:24-46).  Goroutines of the program call Submit,   *)
(* Close and Wait in any order; a panic ends the process.                   *)

\* how ConnectionTask.Run ends: the read fails, the write fails, or the
\* response is written
TaskOutcomes == {"read_err", "write_err", "ok"}

PoolAlive == poolPc \in {"new", "running"}

\* Pool.Run (24-28): numThreads goroutines start runWorker and block in
\* "range pool.tasksChan"
PoolRun ==
    /\ poolPc = "new"
    /\ poolPc' = "running"
    /\ workerPc' = [w \in Workers |-> "idle"]
    /\ UNCHANGED <<workerTask, chanClosed, wg, taskState, taskOutcome, waitPc,
                   waitedFor, unfinishedAtWait>>
    /\ UNCHANGED <<taskRuns, taskConn, srvVars>>
    /\ UNCHANGED <<natVars, kaVars, sdpVars, sendVars, recvVars, pcmVars,
                   syncVars>>

\* Submit with a slip: the task is sent without wg.Add(1)
PoolSubmit_NoAdd(t) ==
    /\ PoolAlive
    /\ taskState[t] = "new"
    /\ wg' = wg
    /\ taskState' = [taskState EXCEPT ![t] = "sending"]
    /\ UNCHANGED <<poolPc, workerPc, workerTask, chanClosed, taskOutcome,
                   waitPc, waitedFor, unfinishedAtWait>>
    /\ taskConn' = [taskConn EXCEPT ![t] = "open"]
    /\ UNCHANGED <<taskRuns, srvVars>>
    /\ UNCHANGED <<natVars, kaVars, sdpVars, sendVars, recvVars, pcmVars,
                   syncVars>>

\* Pool.Submit (44-47) up to its send: "pool.wg.Add(1)", then the caller
\* blocks in "pool.tasksChan <- task" on the unbuffered channel
PoolSubmit(t) ==
    /\ PoolAlive
    /\ taskState[t] = "new"
    /\ wg' = wg + 1
    /\ taskState' = [taskState EXCEPT ![t] = "sending"]
    /\ UNCHANGED <<poolPc, workerPc, workerTask, chanClosed, taskOutcome,
                   waitPc, waitedFor, unfinishedAtWait>>
    /\ taskConn' = [taskConn EXCEPT ![t] = "open"]
    /\ UNCHANGED <<taskRuns, srvVars>>
    /\ UNCHANGED <<natVars, kaVars, sdpVars, sendVars, recvVars, pcmVars,
                   syncVars>>

\* the receive with a slip: the task received stays in the channel
runWorkerReceive_Duplicates(w, t) ==
    /\ PoolAlive
    /\ ~chanClosed
    /\ taskState[t] = "sending"
    /\ workerPc[w] = "idle"
    /\ workerPc' = [workerPc EXCEPT ![w] = "busy"]
    /\ workerTask' = [workerTask EXCEPT ![w] = t]
    /\ taskState' = taskState
    /\ UNCHANGED <<poolPc, chanClosed, wg, taskOutcome, waitPc, waitedFor,
                   unfinishedAtWait>>
    /\ taskRuns' = [taskRuns EXCEPT ![t] = @ + 1]
    /\ UNCHANGED <<taskConn, srvVars>>
    /\ UNCHANGED <<natVars, kaVars, sdpVars, sendVars, recvVars, pcmVars,
                   syncVars>>

\* the send of Submit meets the receive of a worker's range loop (31):
\* Submit returns and the worker starts task.Run(&pool.wg) (32)
runWorkerReceive(w, t) ==
    /\ PoolAlive
    /\ ~chanClosed
    /\ taskState[t] = "sending"
    /\ workerPc[w] = "idle"
    /\ workerPc' = [workerPc EXCEPT ![w] = "busy"]
    /\ workerTask' = [workerTask EXCEPT ![w] = t]
    /\ taskState' = [taskState EXCEPT ![t] = "running"]
    /\ UNCHANGED <<poolPc, chanClosed, wg, taskOutcome, waitPc, waitedFor,
                   unfinishedAtWait>>
    /\ taskRuns' = [taskRuns EXCEPT ![t] = @ + 1]
    /\ UNCHANGED <<taskConn, srvVars>>
    /\ UNCHANGED <<natVars, kaVars, sdpVars, sendVars, recvVars, pcmVars,
                   syncVars>>

\* ConnectionTask.Run (24-46) ends: on every path the deferred function
\* closes the connection and calls wg.Done(); the worker is back in its range
TaskRun(w) ==
    /\ PoolAlive
    /\ workerPc[w] = "busy"
    /\ \E o \in TaskOutcomes :
         taskOutcome' = [taskOutcome EXCEPT ![workerTask[w]] = o]
    /\ taskState' = [taskState EXCEPT ![workerTask[w]] = "done"]
    /\ wg' = wg - 1
    /\ workerPc' = [workerPc EXCEPT ![w] = "idle"]
    /\ workerTask' = [workerTask EXCEPT ![w] = 0]
    /\ UNCHANGED <<poolPc, chanClosed, waitPc, waitedFor, unfinishedAtWait>>
    /\ taskConn' = [taskConn EXCEPT ![workerTask[w]] = CloseRes(@)]
    /\ UNCHANGED <<taskRuns, srvVars>>
    /\ UNCHANGED <<natVars, kaVars, sdpVars, sendVars, recvVars, pcmVars,
                   syncVars>>

\* the range loop of runWorker (31-33) ends on the closed channel
runWorkerExit(w) ==
    /\ PoolAlive
    /\ chanClosed
    /\ workerPc[w] = "idle"
    /\ workerPc' = [workerPc EXCEPT ![w] = "exited"]
    /\ UNCHANGED <<poolPc, workerTask, chanClosed, wg, taskState, taskOutcome,
                   waitPc, waitedFor, unfinishedAtWait>>
    /\ UNCHANGED <<taskRuns, taskConn, srvVars>>
    /\ UNCHANGED <<natVars, kaVars, sdpVars, sendVars, recvVars, pcmVars,
                   syncVars>>

\* Pool.Close (40-42): close(pool.tasksChan); closing a closed channel
\* panics
PoolClose ==
    /\ PoolAlive
    /\ IF chanClosed
       THEN poolPc' = "panicked" /\ UNCHANGED chanClosed
       ELSE chanClosed' = TRUE /\ UNCHANGED poolPc
    /\ UNCHANGED <<workerPc, workerTask, wg, taskState, taskOutcome, waitPc,
                   waitedFor, unfinishedAtWait>>
    /\ UNCHANGED <<taskRuns, taskConn, srvVars>>
    /\ UNCHANGED <<natVars, kaVars, sdpVars, sendVars, recvVars, pcmVars,
                   syncVars>>

\* the send of Submit (46) on a closed channel panics
PoolSubmitPanics(t) ==
    /\ PoolAlive
    /\ chanClosed
    /\ taskState[t] = "sending"
    /\ poolPc' = "panicked"
    /\ taskState' = [taskState EXCEPT ![t] = "lost"]
    /\ UNCHANGED <<workerPc, workerTask, chanClosed, wg, taskOutcome, waitPc,
                   waitedFor, unfinishedAtWait>>
    /\ UNCHANGED <<taskRuns, taskConn, srvVars>>
    /\ UNCHANGED <<natVars, kaVars, sdpVars, sendVars, recvVars, pcmVars,
                   syncVars>>

\* Pool.Wait (36-38) is called: the caller blocks in pool.wg.Wait()
PoolWaitCall ==
    /\ PoolAlive
    /\ waitPc = "none"
    /\ waitPc' = "waiting"
    /\ waitedFor' = {t \in Tasks : taskState[t] # "new"}
    /\ unfinishedAtWait' = {t \in Tasks : taskState[t] \in {"sending", "running"}}
    /\ UNCHANGED <<poolPc, workerPc, workerTask, chanClosed, wg, taskState,
                   taskOutcome>>
    /\ UNCHANGED <<taskRuns, taskConn, srvVars>>
    /\ UNCHANGED <<natVars, kaVars, sdpVars, sendVars, recvVars, pcmVars,
                   syncVars>>

\* pool.wg.Wait() returns: the counter is zero
PoolWaitReturn ==
    /\ PoolAlive
    /\ waitPc = "waiting"
    /\ wg = 0
    /\ waitPc' = "returned"
    /\ UNCHANGED <<poolPc, workerPc, workerTask, chanClosed, wg, taskState,
                   taskOutcome, waitedFor, unfinishedAtWait>>
    /\ UNCHANGED <<taskRuns, taskConn, srvVars>>
    /\ UNCHANGED <<natVars, kaVars, sdpVars, sendVars, recvVars, pcmVars,
                   syncVars>>

\* NewPool (17-22) has returned: an unbuffered channel, a zero WaitGroup,
\* no worker
InitPool ==
    /\ InitNatVars /\ InitKaVars /\ IdleSdpVars /\ IdleSendVars
    /\ IdleRecvVars /\ IdlePcmVars /\ IdleSyncVars /\ IdleSrvVars
    /\ poolPc = "new"
    /\ workerPc = [w \in Workers |-> "none"]
    /\ workerTask = [w \in Workers |-> 0]
    /\ chanClosed = FALSE
    /\ wg = 0
    /\ taskState = [t \in Tasks |-> "new"]
    /\ taskOutcome = [t \in Tasks |-> ""]
    /\ waitPc = "none"
    /\ waitedFor = {}
    /\ unfinishedAtWait = {}
    /\ taskRuns = [t \in Tasks |-> 0]
    /\ taskConn = [t \in Tasks |-> "none"]

NextPool ==
    \/ PoolRun
    \/ \E t \in Tasks : PoolSubmit(t)
    \/ \E w \in Workers, t \in Tasks : runWorkerReceive(w, t)
    \/ \E w \in Workers : TaskRun(w)
    \/ \E w \in Workers : runWorkerExit(w)
    \/ PoolClose
    \/ \E t \in Tasks : PoolSubmitPanics(t)
    \/ PoolWaitCall
    \/ PoolWaitReturn

SpecPool == InitPool /\ [][NextPool]_vars

---------------------------------------------------------------------------
(* SpecServer: main of the concurtcp server (src/concurtcp/main.go:48-108)  *)
(* with its signal goroutine, on the Pool of SpecPool.  While a task is     *)
(* "sending", main is blocked inside pool.Submit.                           *)

\* main is inside pool.Submit, blocked in the channel send
InSubmit == \E t \in Tasks : taskState[t] = "sending"

\* the select with a slip: the default case is taken although ctx is done
SelectBranch_AlwaysDefault(done) == "default"

\* the select at 86-96: "case <-ctx.Done()" if the context is cancelled,
\* else the default case
SelectBranch(done) == IF done THEN "shutdown" ELSE "default"

\* listener.Accept (97): a connection or an error on an open listener, an
\* error on a closed one
AcceptResults(l) == IF l = "open" THEN {"conn", "error"} ELSE {"error"}

\* 49-83: the listener is opened, the context and the signal goroutine are
\* made, NewPool and pool.Run start the workers; a missing argument or a
\* failing ResolveTCPAddr or ListenTCP ends the process (log.Fatal)
SrvStart ==
    /\ srvPc = "start"
    /\ \/ /\ srvPc' = "fatal"
          /\ UNCHANGED <<listener, sigPc, poolPc, workerPc>>
       \/ /\ srvPc' = "select"
          /\ listener' = "open"
          /\ sigPc' = "waiting"
          /\ poolPc' = "running"
          /\ workerPc' = [w \in Workers |-> "idle"]
    /\ UNCHANGED <<ctxDone, workerTask, chanClosed, wg, taskState, taskOutcome,
                   waitPc, waitedFor, unfinishedAtWait, taskRuns, taskConn>>
    /\ UNCHANGED <<natVars, kaVars, sdpVars, sendVars, recvVars, pcmVars,
                   syncVars>>

\* one pass through the select (85-96): the shutdown branch logs, calls
\* pool.Close() and enters pool.Wait() (88-92); the default case goes to
\* listener.Accept()
SrvSelect ==
    /\ srvPc = "select"
    /\ PoolAlive
    /\ ~InSubmit
    /\ IF SelectBranch(ctxDone) = "shutdown"
       THEN /\ IF chanClosed
               THEN poolPc' = "panicked" /\ UNCHANGED chanClosed
               ELSE chanClosed' = TRUE /\ UNCHANGED poolPc
            /\ srvPc' = "waiting"
            /\ waitPc' = "waiting"
            /\ waitedFor' = {t \in Tasks : taskState[t] # "new"}
            /\ unfinishedAtWait' = {t \in Tasks : taskState[t] = "running"}
       ELSE /\ srvPc' = "accept"
            /\ UNCHANGED <<poolPc, chanClosed, waitPc, waitedFor,
                           unfinishedAtWait>>
    /\ UNCHANGED <<ctxDone, listener, sigPc, workerPc, workerTask, wg,
                   taskState, taskOutcome, taskRuns, taskConn>>
    /\ UNCHANGED <<natVars, kaVars, sdpVars, sendVars, recvVars, pcmVars,
                   syncVars>>

\* listener.Accept returns (97-105): on an error main logs and continues; on
\* a connection it makes a ConnectionTask and calls pool.Submit, which adds
\* one to the WaitGroup and sends the task (a send on a closed channel
\* panics)
SrvAccept ==
    /\ srvPc = "accept"
    /\ PoolAlive
    /\ \E res \in AcceptResults(listener) :
         IF res = "error"
         THEN /\ srvPc' = "select"
              /\ UNCHANGED <<poolPc, wg, taskState, taskConn>>
         ELSE \E t \in Tasks :
                /\ taskState[t] = "new"
                /\ taskConn' = [taskConn EXCEPT ![t] = "open"]
                /\ wg' = wg + 1
                /\ IF chanClosed
                   THEN /\ poolPc' = "panicked"
                        /\ taskState' = [taskState EXCEPT ![t] = "lost"]
                   ELSE /\ taskState' = [taskState EXCEPT ![t] = "sending"]
                        /\ UNCHANGED poolPc
                /\ srvPc' = "select"
    /\ UNCHANGED <<ctxDone, listener, sigPc, workerPc, workerTask, chanClosed,
                   taskOutcome, waitPc, waitedFor, unfinishedAtWait, taskRuns>>
    /\ UNCHANGED <<natVars, kaVars, sdpVars, sendVars, recvVars, pcmVars,
                   syncVars>>

\* listener.Accept on the closed listener
SrvAcceptOnClosed == listener = "closed" /\ SrvAccept

\* the signal goroutine receives from chSig and calls cancel() (75-77)
SigCancel ==
    /\ sigPc = "waiting"
    /\ srvPc \notin {"returned", "fatal"}
    /\ PoolAlive
    /\ ctxDone' = TRUE
    /\ sigPc' = "cancelled"
    /\ UNCHANGED <<srvPc, listener>>
    /\ UNCHANGED <<natVars, kaVars, sdpVars, sendVars, recvVars, pcmVars,
                   poolVars, syncVars>>

\* the signal goroutine calls listener.Close() (78) and ends
SigCloseListener ==
    /\ sigPc = "cancelled"
    /\ srvPc \notin {"returned", "fatal"}
    /\ PoolAlive
    /\ listener' = CloseRes(listener)
    /\ sigPc' = "done"
    /\ UNCHANGED <<srvPc, ctxDone>>
    /\ UNCHANGED <<natVars, kaVars, sdpVars, sendVars, recvVars, pcmVars,
                   poolVars, syncVars>>

\* pool.Wait() returns at counter zero; main logs "Server shutdown
\* complete." and returns (94-95), and the deferred cancel() (67) and
\* listener.Close() (64) run
SrvWaitReturn ==
    /\ srvPc = "waiting"
    /\ PoolAlive
    /\ wg = 0
    /\ waitPc' = "returned"
    /\ srvPc' = "returned"
    /\ ctxDone' = TRUE
    /\ listener' = CloseRes(listener)
    /\ UNCHANGED <<sigPc, poolPc, workerPc, workerTask, chanClosed, wg,
                   taskState, taskOutcome, waitedFor, unfinishedAtWait,
                   taskRuns, taskConn>>
    /\ UNCHANGED <<natVars, kaVars, sdpVars, sendVars, recvVars, pcmVars,
                   syncVars>>

\* the process has been started
InitServer ==
    /\ InitNatVars /\ InitKaVars /\ IdleSdpVars /\ IdleSendVars
    /\ IdleRecvVars /\ IdlePcmVars /\ IdlePoolVars /\ IdleSyncVars
    /\ srvPc = "start"
    /\ ctxDone = FALSE
    /\ listener = "none"
    /\ sigPc = "none"

NextServer ==
    \/ SrvStart
    \/ SrvSelect
    \/ SrvAccept
    \/ SigCancel
    \/ SigCloseListener
    \/ SrvWaitReturn
    \/ \E w \in Workers, t \in Tasks : runWorkerReceive(w, t)
    \/ \E w \in Workers : TaskRun(w)
    \/ \E w \in Workers : runWorkerExit(w)

\* Every goroutine that can take a step does so in the end, and a running
\* connection task completes; nothing obliges a client to connect or a
\* signal to arrive, and Accept on the open listener may wait for ever.
SpecServer ==
    /\ InitServer
    /\ [][NextServer]_vars
    /\ WF_vars(SrvSelect)
    /\ WF_vars(SrvAcceptOnClosed)
    /\ WF_vars(SigCloseListener)
    /\ WF_vars(SrvWaitReturn)
    /\ WF_vars(\E w \in Workers, t \in Tasks : runWorkerReceive(w, t))
    /\ \A w \in Workers : WF_vars(TaskRun(w))

---------------------------------------------------------------------------
(* SpecSync: syncAllToDecisions (src/syncchat.go:13-74).  Follower i is     *)
(* followerChatIds[i]; the rating concluded for it is written i, a nil      *)
(* rating 0.  concludeChats returning a nil error is taken to return a      *)
(* non-nil rating.                                                          *)

ErrFollowerChatIds == <<"followerChatIds">>

\* the channels with a slip: "make(chan ...)" without a capacity
ChanCap_Unbuffered(n) == 0

\* "make(chan error, len(followerChatIds))", "make(chan *rating.Rating,
\* len(followerChatIds))" (24-25): the capacity of each channel
ChanCap(n) == n

\* the ways a follower goroutine ends (33-47): getChatHistory fails,
\* concludeChats fails, or the rating is sent
FollowerSends(i) ==
    {[ch |-> "err", val |-> i, why |-> "failed to get chat history"],
     [ch |-> "err", val |-> i, why |-> "failed to carry out chat"],
     [ch |-> "rating", val |-> i, why |-> ""]}

\* 57-61: ratings, made of n nil elements (23), filled from index 0 in the
\* order the ratings are received from the closed channel
FillRatings(n, ch) == [k \in 1..n |-> IF k <= Len(ch) THEN ch[k] ELSE 0]

\* the return with a slip: the collected errors are not looked at
SyncResult_IgnoresErrors(rs, errs) ==
    [returned |-> TRUE, ratingsNil |-> FALSE, ratings |-> rs, err |-> NilErr]

\* 69-73: an error and nil ratings if any error was collected, else the
\* ratings and a nil error
SyncResult(rs, errs) ==
    IF Len(errs) > 0
    THEN [returned |-> TRUE, ratingsNil |-> TRUE, ratings |-> <<>>,
          err |-> <<"encountered errors while synchronizing chats">>]
    ELSE [returned |-> TRUE, ratingsNil |-> FALSE, ratings |-> rs,
          err |-> NilErr]

\* 16-25: followerChatIds fails and the function returns, or it yields
\* nFollowers ids and the WaitGroup, the slice and the channels are made
SyncFollowerChatIds ==
    /\ syncPc = "start"
    /\ \/ /\ syncPc' = "returned"
          /\ syncRet' = [returned |-> TRUE, ratingsNil |-> TRUE, ratings |-> <<>>,
                         err |-> Errorf("failed to get follower chat IDs",
                                        ErrFollowerChatIds)]
       \/ /\ syncPc' = "spawn"
          /\ UNCHANGED syncRet
    /\ UNCHANGED <<nFollowers, spawned, swg, gPc, gSend, ratingCh, errCh,
                   chansClosed, nSends>>
    /\ UNCHANGED <<natVars, kaVars, sdpVars, sendVars, recvVars, pcmVars,
                   poolVars, srvVars>>

\* one pass of the loop at 27-49: wg.Add(1) and "go func(i, chatId)"
SyncSpawn ==
    /\ syncPc = "spawn"
    /\ spawned < nFollowers
    /\ spawned' = spawned + 1
    /\ swg' = swg + 1
    /\ gPc' = [gPc EXCEPT ![spawned + 1] = "running"]
    /\ UNCHANGED <<syncPc, nFollowers, gSend, ratingCh, errCh, chansClosed,
                   nSends, syncRet>>
    /\ UNCHANGED <<natVars, kaVars, sdpVars, sendVars, recvVars, pcmVars,
                   poolVars, srvVars>>

\* a follower goroutine up to its channel send (33-47)
FollowerWork(i) ==
    /\ gPc[i] = "running"
    /\ \E snd \in FollowerSends(i) : gSend' = [gSend EXCEPT ![i] = snd]
    /\ gPc' = [gPc EXCEPT ![i] = "sending"]
    /\ UNCHANGED <<syncPc, nFollowers, spawned, swg, ratingCh, errCh,
                   chansClosed, nSends, syncRet>>
    /\ UNCHANGED <<natVars, kaVars, sdpVars, sendVars, recvVars, pcmVars,
                   poolVars, srvVars>>

\* the goroutine's send (35, 42 or 47), which needs room in the buffer,
\* then its return and the deferred wg.Done() (30)
FollowerSend(i) ==
    /\ gPc[i] = "sending"
    /\ ~chansClosed
    /\ IF gSend[i].ch = "rating"
       THEN /\ Len(ratingCh) < ChanCap(nFollowers)
            /\ ratingCh' = Append(ratingCh, gSend[i].val)
            /\ UNCHANGED errCh
       ELSE /\ Len(errCh) < ChanCap(nFollowers)
            /\ errCh' = Append(errCh, [chat |-> gSend[i].val, why |-> gSend[i].why])
            /\ UNCHANGED ratingCh
    /\ nSends' = [nSends EXCEPT ![i] = @ + 1]
    /\ swg' = swg - 1
    /\ gPc' = [gPc EXCEPT ![i] = "done"]
    /\ UNCHANGED <<syncPc, nFollowers, spawned, gSend, chansClosed, syncRet>>
    /\ UNCHANGED <<natVars, kaVars, sdpVars, sendVars, recvVars, pcmVars,
                   poolVars, srvVars>>

\* 52-73: wg.Wait() returns at counter zero; the channels are closed, the
\* ratings and then the errors are received until the channels are empty,
\* and the function returns
SyncCollect ==
    /\ syncPc = "spawn"
    /\ spawned = nFollowers
    /\ swg = 0
    /\ chansClosed' = TRUE
    /\ syncRet' = SyncResult(FillRatings(nFollowers, ratingCh), errCh)
    /\ ratingCh' = <<>>
    /\ errCh' = <<>>
    /\ syncPc' = "returned"
    /\ UNCHANGED <<nFollowers, spawned, swg, gPc, gSend, nSends>>
    /\ UNCHANGED <<natVars, kaVars, sdpVars, sendVars, recvVars, pcmVars,
                   poolVars, srvVars>>

\* syncAllToDecisions is called; followerChatIds will yield nFollowers ids
InitSync ==
    /\ InitNatVars /\ InitKaVars /\ IdleSdpVars /\ IdleSendVars
    /\ IdleRecvVars /\ IdlePcmVars /\ IdlePoolVars /\ IdleSrvVars
    /\ syncPc = "start"
    /\ nFollowers \in 0..MaxFollowers
    /\ spawned = 0
    /\ swg = 0
    /\ gPc = [i \in Followers |-> "none"]
    /\ gSend = [i \in Followers |-> NoSend]
    /\ ratingCh = <<>>
    /\ errCh = <<>>
    /\ chansClosed = FALSE
    /\ nSends = [i \in Followers |-> 0]
    /\ syncRet = NoSyncRet

NextSync ==
    \/ SyncFollowerChatIds
    \/ SyncSpawn
    \/ \E i \in Followers : FollowerWork(i)
    \/ \E i \in Followers : FollowerSend(i)
    \/ SyncCollect

\* the function's own goroutine goes on once wg.Wait() can return; the
\* follower goroutines' calls to the chat server are not obliged to end
SpecSync ==
    /\ InitSync
    /\ [][NextSync]_vars
    /\ WF_vars(SyncCollect)

---------------------------------------------------------------------------
(* Properties of NAT traversal, checked under SpecNat.                     *)

\* performSTUNWithKeepalive has returned to performNATTraversal
StunReturned ==
    mainPc \notin {"idle", "stun_listen", "stun_newclient", "stun_do",
                   "stun_spawn", "stun_return"}

\* performNATTraversal has returned to main
NatReturned == mainPc \in {"nat_returned", "media", "fatal"}

\* the three ways the binding request itself fails: the transport errors,
\* the transaction ends in an event error (a timeout), or the response has
\* no well-formed XOR-MAPPED-ADDRESS
StunFailed == stunEvent \in {"transport_err", "event_err", "malformed"}

\* C1: whenever the STUN attempt fails in one of the three ways,
\* performSTUNWithKeepalive returns an error and the TURN allocation is
\* attempted; performNATTraversal never returns success on the strength of a
\* failed STUN attempt.
C1_FailedStunFallsBackToTurn ==
    StunFailed =>
        /\ StunReturned => stunRet.err # NilErr
        /\ NatReturned => turnEvent # "none"

\* C2: if the STUN attempt returns an error and the TURN allocation
\* succeeds, performNATTraversal returns a nil error, the allocated relay
\* address and port, and an empty public address.
C2_TurnFallbackIsSilent ==
    (NatReturned /\ stunRet.err # NilErr /\ turnEvent = "ok") =>
        natRet = [publicIP |-> "", publicPort |-> 0, relayIP |-> turnRet.ip,
                  relayPort |-> turnRet.port, err |-> NilErr]

\* C2's case: STUN returned an error, TURN allocated 192.0.2.10:49152 and
\* performNATTraversal has returned it
C2_Witness ==
    /\ NatReturned
    /\ stunRet.err # NilErr
    /\ turnEvent = "ok"
    /\ turnRet.ip = "192.0.2.10"
    /\ natRet.relayIP = "192.0.2.10"
    /\ natRet.relayPort = 49152

\* C3: if both the STUN attempt and the TURN allocation fail, the
\* error performNATTraversal returns includes both the STUN failure's cause
\* and the TURN failure's cause.
C3_BothCausesReturned ==
    (NatReturned /\ stunRet.err # NilErr /\ turnRet.err # NilErr) =>
        /\ natRet.err # NilErr
        /\ IncludesCause(natRet.err, stunRet.err)
        /\ IncludesCause(natRet.err, turnRet.err)

\* C4: the keepalive goroutine self-terminates once 2 minutes have elapsed
\* since it started: from then on its expiry case is ready whenever it still
\* waits in the select, so it returns instead of waiting for another tick.
C4_KeepaliveExpiresAfterWindow ==
    (kaPc = "select" /\ now - kaStart >= KeepaliveWindow) => now >= kaAfter

\* C5: whenever performNATTraversal returns an error, every socket and
\* client the STUN and the TURN attempt opened is closed, and no keepalive
\* goroutine (and so no ticker or timer of it) exists.
C5_NothingLeftOnFailure ==
    (NatReturned /\ natRet.err # NilErr) =>
        /\ stunConn # "open"
        /\ stunClient # "open"
        /\ turnConn # "open"
        /\ turnClient # "open"
        /\ kaPc = "idle"

\* C5's case: both attempts opened a socket and a client, both failed, and
\* performNATTraversal has returned the error
C5_Witness ==
    /\ NatReturned
    /\ natRet.err # NilErr
    /\ stunConn = "closed"
    /\ stunClient = "closed"
    /\ turnConn = "closed"
    /\ turnClient = "closed"

\* C6: the media loop is started only after performNATTraversal returned
\* without error and with a resolved candidate: never with neither a public
\* nor a relay address, on the INVITE path and on the call-connected path.
C6_MediaOnlyWithCandidate ==
    media.started =>
        /\ NatReturned
        /\ natRet.err = NilErr
        /\ media.publicIP # "" \/ media.relayIP # ""

\* C7: every successful return of performNATTraversal carries exactly one
\* candidate: either the public address or the relay address is set, with
\* its port, never both and never neither.
C7_ExactlyOneCandidate ==
    (NatReturned /\ natRet.err = NilErr) =>
        \/ /\ natRet.publicIP # "" /\ natRet.publicPort # 0
           /\ natRet.relayIP = "" /\ natRet.relayPort = 0
        \/ /\ natRet.relayIP # "" /\ natRet.relayPort # 0
           /\ natRet.publicIP = "" /\ natRet.publicPort = 0

---------------------------------------------------------------------------
(* Properties of generateSDPAnswer, checked under SpecSdp.                 *)

\* the decimal text of the ports SpecSdp draws
C8_PortText(p) ==
    CASE p = 0 -> "0" [] p = 7 -> "7" [] p = 5004 -> "5004"
      [] p = 40000 -> "40000" [] p = 65535 -> "65535"

\* the answer for connection address ip and media port p: the connection
\* line "c=IN IP4 <ip>", the media line "m=audio <p> RTP/AVP 0 96" and the
\* Opus rtpmap
C8_Answer(ip, p) ==
    "v=0\r\no=- 0 0 IN IP4 " \o ip \o "\r\ns=-\r\nc=IN IP4 " \o ip
        \o "\r\nt=0 0\r\nm=audio " \o C8_PortText(p)
        \o " RTP/AVP 0 96\r\na=rtpmap:96 opus/8000/1\r\n"

\* C8: generateSDPAnswer renders the connection line and the media port from
\* the relay address and port when a relay address is present and from the
\* public ones otherwise, and always announces payload types 0 and 96 with
\* the Opus rtpmap; for 203.0.113.5:40000 and no relay the text has the lines
\* "c=IN IP4 203.0.113.5" and "m=audio 40000 RTP/AVP 0 96".
C8_AnswerFromRelayElsePublic ==
    sdpCalled =>
        /\ sdpIn.relayIP # "" => sdpOut = C8_Answer(sdpIn.relayIP, sdpIn.relayPort)
        /\ sdpIn.relayIP = "" => sdpOut = C8_Answer(sdpIn.publicIP, sdpIn.publicPort)
        /\ (sdpIn.publicIP = "203.0.113.5" /\ sdpIn.publicPort = 40000 /\ sdpIn.relayIP = "")
             => sdpOut = "v=0\r\no=- 0 0 IN IP4 203.0.113.5\r\ns=-\r\nc=IN IP4 203.0.113.5\r\nt=0 0\r\nm=audio 40000 RTP/AVP 0 96\r\na=rtpmap:96 opus/8000/1\r\n"

\* C8's case: a call with both a public and a relay address, answered from
\* the relay
C8_Witness ==
    /\ sdpCalled
    /\ sdpIn.publicIP = "203.0.113.5" /\ sdpIn.publicPort = 40000
    /\ sdpIn.relayIP = "192.0.2.10" /\ sdpIn.relayPort = 5004
    /\ sdpOut = "v=0\r\no=- 0 0 IN IP4 192.0.2.10\r\ns=-\r\nc=IN IP4 192.0.2.10\r\nt=0 0\r\nm=audio 5004 RTP/AVP 0 96\r\na=rtpmap:96 opus/8000/1\r\n"

---------------------------------------------------------------------------
(* Properties of the send loop, checked under SpecSend.                    *)

\* C10: within one run of the send loop the k-th packet written (k = 0, 1,
\* 2, ...) carries sequence number k mod 2^16: numbering starts at 0, goes
\* up by one per packet written and wraps at 2^16, for every codec and
\* wherever the loop stops.
C10_SequenceNumberIsCount ==
    /\ nWritten > 0 => lastPacket.SequenceNumber = (nWritten - 1) % 65536
    /\ sequenceNumber = nWritten % 65536

\* C10's case: the 65537th packet has been written, with sequence number 0
\* again
C10_Witness ==
    /\ nWritten = 65537
    /\ lastPacket.SequenceNumber = 0
    /\ sequenceNumber = 1

\* 160 * k modulo 2^32 as halves, for k = kh * 2^16 + kl
C11_Times160(k) ==
    LET kh == k \div 65536
        kl == k % 65536
    IN  [hi |-> (kh * 160 + ((kl * 160) \div 65536)) % 65536,
         lo |-> (kl * 160) % 65536]

\* C11: within one run of the send loop the RTP timestamp of each packet
\* written is the previous written packet's plus exactly 160 modulo 2^32,
\* starting at 0, for PCMU and for Opus: the k-th packet (k = 0, 1, ...)
\* carries 160 * k mod 2^32 and the next will carry 160 more.
C11_TimestampAdvancesBy160 ==
    /\ nWritten > 0 => lastPacket.Timestamp = C11_Times160(nWritten - 1)
    /\ timestamp = C11_Times160(nWritten)
    /\ nWritten = 1 => lastPacket.Timestamp = [hi |-> 0, lo |-> 0]
    /\ nWritten = 2 => lastPacket.Timestamp = [hi |-> 0, lo |-> 160]
    /\ nWritten = 411 => lastPacket.Timestamp = [hi |-> 1, lo |-> 64]

\* C11's case: an Opus leg has written packet number 26,843,546 (counting
\* from 0), the first after the wrap: 160 * 26,843,546 - 2^32 = 64
C11_Witness ==
    /\ selectedCodec = "Opus"
    /\ nWritten = 26843547
    /\ lastPacket.Timestamp = [hi |-> 0, lo |-> 64]
    /\ lastPacket.PayloadType = 96

\* C15: when the selected codec is neither "PCMU" nor "Opus" the send duty
\* halts with an unsupported-codec failure: no RTP packet is written for that
\* frame or any later one.
C15_UnsupportedCodecWritesNothing ==
    selectedCodec \notin {"PCMU", "Opus"} /\ sendPc # "idle" =>
        /\ nWritten = 0
        /\ lastPacket = NoPacket

\* the failures the send loop detects: capture read (314), encode (334),
\* marshal (352) and socket write (359)
C16_Failures ==
    {"Failed to capture audio", "failed to create Opus encoder",
     "failed to encode Opus audio", "Failed to marshal RTP packet",
     "Failed to send RTP packet"}

\* C16: a capture read failure, an encode failure or a socket write failure
\* in the send loop ends the send duty in that same iteration: the step in
\* which the failure happens writes no packet and stops the loop, and a
\* stopped loop writes nothing afterwards.
C16_FailureStopsSendDuty ==
    [][/\ sendErr' # sendErr =>
            /\ sendErr' \in C16_Failures
            /\ sendPc' = "stopped"
            /\ nWritten' = nWritten
            /\ lastPacket' = lastPacket
       /\ sendPc = "stopped" =>
            /\ sendPc' = "stopped"
            /\ nWritten' = nWritten
            /\ lastPacket' = lastPacket
       /\ nWritten' # nWritten => sendErr' = "" /\ sendPc' = "loop"]_vars

\* C16's case: an Opus leg wrote two packets, then its encoder failed on the
\* third frame and the loop stopped with two packets written
C16_Witness ==
    /\ selectedCodec = "Opus"
    /\ sendPc = "stopped"
    /\ sendErr = "failed to encode Opus audio"
    /\ nWritten = 2
    /\ lastPacket.SequenceNumber = 1

---------------------------------------------------------------------------
(* Properties of the media loop.                                           *)

\* the datagrams C12 speaks of: parsing fails, the payload type is neither 0
\* nor 96, or the payload fails to decode
C12_Bad(d) ==
    \/ d.parse = "truncated"
    \/ d.parse = "ok" /\ d.payloadType \notin {0, 96}
    \/ d.parse = "ok" /\ d.payloadType = 96 /\ d.opus \in {"new_err", "codec_err"}

\* C12: in the receive duty a datagram that fails RTP parsing (a truncated
\* one included), carries a payload type other than 0 or 96, or fails to
\* decode is dropped: the step that reads it calls audioPlayback.Write for no
\* datagram and leaves the duty in its loop; a good datagram is played; the
\* duty ends only in a step whose socket read returned an error.
C12_BadDatagramsAreDropped ==
    [][/\ nRead' # nRead =>
            /\ nRead' = nRead + 1
            /\ recvPc' = "loop"
            /\ recvErr' = ""
            /\ C12_Bad(lastDatagram') => nSinkWrites' = nSinkWrites
            /\ ~C12_Bad(lastDatagram') => nSinkWrites' = nSinkWrites + 1
       /\ nRead' = nRead => nSinkWrites' = nSinkWrites
       /\ recvPc = "loop" /\ recvPc' # "loop" =>
            /\ recvPc' = "stopped"
            /\ recvErr' = "Failed to read RTP packet"
            /\ nRead' = nRead]_vars

\* C12's case: three datagrams were read, one was played, the last one had
\* payload type 5, and the receive duty is still in its loop
C12_Witness ==
    /\ nRead = 3
    /\ nSinkWrites = 1
    /\ lastDatagram.parse = "ok"
    /\ lastDatagram.payloadType = 5
    /\ recvPc = "loop"
    /\ rtpConn = "open"

\* C13: when the receive duty ends on a socket read error the leg ends: the
\* send duty stops emitting packets and the socket is released, even though
\* capture reads, encoding and writes keep succeeding.  In the form a finite
\* run refutes: the send duty writes at most one more packet after the
\* receive duty has ended.
C13_ReceiveEndStopsSendDuty ==
    recvPc = "stopped" /\ rtpConn = "open" =>
        nWritten <= writtenAtRecvStop + 1

\* C14: when the send duty ends the media socket is closed exactly once and
\* the receive duty ends too: Close is never called twice, it has been called
\* once the function has returned, and from the send duty's end on the leg
\* leads to a state with both duties ended and the socket closed.
C14_SendEndClosesSocketAndStopsReceive ==
    /\ [](rtpCloses <= 1)
    /\ [](mediaPc = "returned" => rtpCloses = 1 /\ rtpConn = "closed")
    /\ (sendPc = "stopped") ~>
           (recvPc = "stopped" /\ rtpConn = "closed" /\ rtpCloses = 1)

\* C14's case: the send duty ended on a write failure while the receive duty
\* was reading; the function returned, the socket was closed once and the
\* receive duty ended after the send duty
C14_Witness ==
    /\ sendPc = "stopped"
    /\ sendErr = "Failed to send RTP packet"
    /\ mediaPc = "returned"
    /\ rtpCloses = 1
    /\ recvPc = "stopped"
    /\ nRead = 2
    /\ writtenAtRecvStop = nWritten
    /\ nWritten = 2

\* C17: for a leg using Opus the encoder is created once for the send
\* direction and the decoder once for the receive direction: over any number
\* of packets at most one encoder and at most one decoder are created.
C17_OneHandlePerDirection ==
    /\ encCreated <= 1
    /\ decCreated <= 1

\* C18: every Opus encoder or decoder that is created is destroyed exactly
\* once on every exit path of encodeOpus and decodeOpus, a failing encode or
\* decode included: after each call as many handles have been destroyed as
\* were created, so none is live once the duties have stopped.
C18_EveryHandleDestroyed ==
    /\ encDestroyed = encCreated
    /\ decDestroyed = decCreated

\* C18's case: an Opus leg sent two packets and failed to encode the third
\* frame, and the decoder failed on the third datagram; both duties stopped
C18_Witness ==
    /\ selectedCodec = "Opus"
    /\ nWritten = 2
    /\ sendErr = "failed to encode Opus audio"
    /\ encCreated = 3
    /\ nRead = 3
    /\ lastDatagram.opus = "codec_err"
    /\ decCreated >= 2
    /\ sendPc = "stopped"
    /\ recvPc = "stopped"

---------------------------------------------------------------------------
(* Properties of the PCMU codec.                                           *)

\* C19: for every buffer of 160 16-bit samples encodeG711 never fails and
\* yields exactly one 8-bit code per sample (160 bytes), each code depending
\* only on its own sample; decodeG711 of the result never fails and yields
\* 160 16-bit samples whose error against the originals is bounded: at most
\* 644 for every sample, and at most (|s| + 132) / 32 for a sample s that is
\* not clipped.
C19_G711RoundTripBounded ==
    /\ pcmPc \in {"encoded", "decoded"} =>
         /\ pcmErr = ""
         /\ Len(pcmEncoded) = 160
         /\ \A i \in 1..160 :
              /\ pcmEncoded[i] \in 0..255
              /\ pcmEncoded[i] = EncodePCMU(pcmIn[i])
              /\ \A j \in 1..160 :
                   pcmIn[i] = pcmIn[j] => pcmEncoded[i] = pcmEncoded[j]
    /\ pcmPc = "decoded" =>
         /\ Len(pcmDecoded) = 160
         /\ \A i \in 1..160 :
              /\ pcmDecoded[i] \in -32768..32767
              /\ Abs(pcmDecoded[i] - pcmIn[i]) <= 644
              /\ Abs(pcmIn[i]) <= 32635 =>
                   32 * Abs(pcmDecoded[i] - pcmIn[i]) <= Abs(pcmIn[i]) + 132

\* C19's case: the frame that ends the ramp, with the largest sample in its
\* last position, has been encoded and decoded
C19_Witness ==
    /\ pcmPc = "decoded"
    /\ Len(pcmIn) = 160
    /\ pcmIn[1] = 32672
    /\ pcmIn[160] = 32767
    /\ pcmEncoded[160] = 128
    /\ pcmDecoded[160] = 32124

---------------------------------------------------------------------------
(* Properties of the worker pool.                                          *)

\* C20: Pool.Wait returns only after every task handed to Pool.Submit before
\* it has completed, its Run having called Done; it never returns while such
\* a task is still queued or running.
C20_WaitReturnsAfterSubmittedTasks ==
    waitPc = "returned" =>
        /\ \A t \in waitedFor :
             /\ taskState[t] = "done"
             /\ taskOutcome[t] \in TaskOutcomes
        /\ \A w \in Workers : workerTask[w] \notin waitedFor

\* C20's case: Wait was called while the three tasks were handed to Submit
\* and none was done, one of them still queued; it has returned
C20_Witness ==
    /\ waitPc = "returned"
    /\ waitedFor = {1, 2, 3}
    /\ unfinishedAtWait = {1, 2, 3}
    /\ \E t \in waitedFor : taskOutcome[t] = "read_err"

---------------------------------------------------------------------------
(* Properties of the keepalive goroutine's resources.                      *)

\* C21: after a successful STUN resolution the keepalive goroutine never
\* issues a binding request through a STUN client or UDP socket that has
\* been closed: no keepalive has met a closed client, and the socket and the
\* client are open whenever the goroutine waits in its select.
C21_KeepaliveOnOpenClientOnly ==
    /\ kaOnClosed = 0
    /\ kaPc = "select" => stunClient = "open" /\ stunConn = "open"

---------------------------------------------------------------------------
(* Properties of syncAllToDecisions.                                       *)

\* the function has returned its ratings with a nil error
C22_Succeeded ==
    syncRet.returned /\ syncRet.err = NilErr /\ ~syncRet.ratingsNil

\* C22: syncAllToDecisions populates the ratings slice in order: on success
\* ratings[i] is the rating concluded for followerChatIds[i], for every index
\* i and under every interleaving of the follower goroutines.
C22_RatingsInFollowerOrder ==
    C22_Succeeded =>
        \A i \in 1..nFollowers : syncRet.ratings[i] = i

\* follower goroutine i failed: it sent an error
C23_FollowerFailed(i) == gPc[i] = "done" /\ gSend[i].ch = "err"

\* the function returned at 18: followerChatIds failed, no channel was used
C23_IdsFailed == syncPc = "returned" /\ ~chansClosed

\* a slice holding exactly one non-nil rating per follower chat id
C23_OneRatingPerFollower(rs) ==
    /\ Len(rs) = nFollowers
    /\ \A k \in 1..Len(rs) : rs[k] # 0
    /\ \A i \in 1..nFollowers :
         Cardinality({k \in 1..Len(rs) : rs[k] = i}) = 1

\* C23: syncAllToDecisions returns a non-nil error and nil ratings if and
\* only if at least one follower goroutine failed; otherwise it returns a
\* nil error and a slice holding exactly one non-nil rating per follower
\* chat id.
C23_ErrorIffFollowerFailed ==
    syncRet.returned =>
        IF \E i \in Followers : C23_FollowerFailed(i)
        THEN syncRet.err # NilErr /\ syncRet.ratingsNil
        ELSE /\ syncRet.err = NilErr
             /\ ~syncRet.ratingsNil
             /\ C23_OneRatingPerFollower(syncRet.ratings)

\* C23 as the code has it: syncAllToDecisions returns a non-nil error and
\* nil ratings if and only if followerChatIds failed or at least one follower
\* goroutine failed; otherwise it returns a nil error and a slice holding
\* exactly one non-nil rating per follower chat id.
C23_ErrorIffIdsOrFollowerFailed ==
    syncRet.returned =>
        IF C23_IdsFailed \/ \E i \in Followers : C23_FollowerFailed(i)
        THEN /\ syncRet.err # NilErr
             /\ syncRet.ratingsNil
             /\ C23_IdsFailed <=> IncludesCause(syncRet.err, ErrFollowerChatIds)
        ELSE /\ syncRet.err = NilErr
             /\ ~syncRet.ratingsNil
             /\ C23_OneRatingPerFollower(syncRet.ratings)

\* C23's case: of three followers the second failed in concludeChats, the
\* others sent their ratings, and the function returned the error alone
C23_Witness ==
    /\ syncRet.returned
    /\ nFollowers = 3
    /\ gSend[1].ch = "rating"
    /\ gSend[2].why = "failed to carry out chat"
    /\ gSend[3].ch = "rating"
    /\ syncRet.err # NilErr
    /\ syncRet.ratingsNil

\* every follower goroutine has been started and has finished
C24_AllFinished ==
    /\ syncPc = "spawn"
    /\ spawned = nFollowers
    /\ \A i \in 1..nFollowers : gPc[i] = "done"

\* C24: syncAllToDecisions never deadlocks or leaks a goroutine: a follower
\* goroutine at its send can always send (the channel is open and has room),
\* each goroutine sends exactly once, on one of the two channels, no send is
\* outstanding when the channels are closed, and once all follower
\* goroutines have finished the function returns.
C24_NoBlockedSendAndReturns ==
    /\ [](\A i \in Followers :
            /\ gPc[i] = "sending" => ENABLED FollowerSend(i)
            /\ nSends[i] = (IF gPc[i] = "done" THEN 1 ELSE 0)
            /\ chansClosed => gPc[i] \in {"none", "done"})
    /\ [](chansClosed => \A i \in 1..nFollowers : gPc[i] = "done")
    /\ C24_AllFinished ~> (syncPc = "returned" /\ chansClosed)

\* C24's case: three followers, the first failed and the others sent
\* ratings, the channels were filled by all three and closed, and the
\* function has returned
C24_Witness ==
    /\ syncPc = "returned"
    /\ chansClosed
    /\ nFollowers = 3
    /\ \A i \in 1..3 : gPc[i] = "done" /\ nSends[i] = 1
    /\ gSend[1].ch = "err"
    /\ gSend[2].ch = "rating"
    /\ syncRet.returned

---------------------------------------------------------------------------
(* Properties of the concurtcp server.                                     *)

\* C25: every task passed to Pool.Submit before Pool.Close is run exactly
\* once by exactly one worker, and in the concurtcp server Submit is never
\* called after Close: no task is received twice, a received task is with
\* one worker until it is done, nothing is being sent or lost once the
\* channel is closed, no goroutine panics, and when main has returned every
\* submitted task has been run once and is done.
C25_SubmittedTasksRunOnce ==
    /\ poolPc # "panicked"
    /\ \A t \in Tasks :
         /\ taskRuns[t] <= 1
         /\ taskState[t] \in {"running", "done"} => taskRuns[t] = 1
         /\ Cardinality({w \in Workers : workerTask[w] = t}) =
                (IF taskState[t] = "running" THEN 1 ELSE 0)
         /\ chanClosed => taskState[t] \in {"new", "running", "done"}
         /\ srvPc = "returned" /\ taskState[t] # "new" =>
                taskState[t] = "done" /\ taskRuns[t] = 1

\* C25's case: three connections were accepted and submitted to the two
\* workers; the signal came, the pool was closed with a task still running,
\* and main has returned
C25_Witness ==
    /\ srvPc = "returned"
    /\ chanClosed
    /\ waitedFor = {1, 2, 3}
    /\ unfinishedAtWait # {}
    /\ \A t \in Tasks : taskRuns[t] = 1 /\ taskState[t] = "done"

\* C26: in the concurtcp server, after the interrupt signal is received the
\* accept loop reaches the shutdown branch, closes the pool, waits and
\* returns, provided every connection task eventually completes; "Server
\* shutdown complete" is reached only after every accepted connection's
\* task has finished and closed its connection.
C26_SignalLeadsToCompleteShutdown ==
    /\ (sigPc \in {"cancelled", "done"}) ~> (srvPc = "returned")
    /\ [](srvPc = "waiting" => chanClosed)
    /\ [](srvPc = "returned" =>
            /\ chanClosed
            /\ waitPc = "returned"
            /\ \A t \in Tasks :
                 taskConn[t] # "none" =>
                     taskState[t] = "done" /\ taskConn[t] = "closed")

\* C26's case: the signal goroutine cancelled the context and closed the
\* listener; the pool was closed while tasks 2 and 3 were running, and the
\* server has shut down after the three tasks closed their connections
C26_Witness ==
    /\ srvPc = "returned"
    /\ sigPc = "done"
    /\ listener = "closed"
    /\ \A t \in Tasks : taskConn[t] = "closed"
    /\ unfinishedAtWait = {2, 3}

===========================================================================
